---------------------------- MODULE Spec2Model ----------------------------
(***************************************************************************)
(* A model of the financial-statement aggregation engine of financelib     *)
(* (src/src/statements.rs): the line-item taxonomies, the roll-up rule     *)
(* tables, the statement-map operations (add, upsert, calc_elements,       *)
(* remove_calc_clean, clean), the debit/credit resolver and postings, the  *)
(* cash-flow derivation and the point mutators of the Accounts store.      *)
(*                                                                         *)
(* Amounts.  The source holds amounts as f64.  The model holds an amount   *)
(* as an integer count of units of 1/UnitDen of a currency unit, with      *)
(* UnitDen = 2^17.  Every such amount, and every sum or difference of such *)
(* amounts that the model forms, is a dyadic rational that f64 represents  *)
(* exactly, so the integer arithmetic of the model is the arithmetic the   *)
(* source performs on these inputs.  The materiality threshold 1e-5 lies   *)
(* strictly between 1 unit (7.6e-6) and 2 units (1.5e-5): an amount of 1   *)
(* unit is a non-zero amount within the threshold.                         *)
(*                                                                         *)
(* Maps.  A HashMap<K, f64> is a function whose DOMAIN is the set of keys  *)
(* present.  Line items are strings; the four enumerations share no name.  *)
(*                                                                         *)
(* Panics.  An operation that panics leaves the state it had reached and   *)
(* records op.ok = FALSE; no operation runs after a panic.                 *)
(*                                                                         *)
(* Specifications.  Spec derives and cleans a statement map; SpecEnter     *)
(* enters values into a statement map or an Accounts store; SpecPost posts *)
(* debits and credits to a balance sheet; SpecCashFlow derives a cash-flow *)
(* statement from two balance sheets and a profit-and-loss statement.      *)
(***************************************************************************)
EXTENDS Integers, Sequences, FiniteSets, TLC

VARIABLES
  stmt,    \* the family of the statement map under operation: "BS", "PL", "CF"
  m,       \* the statement map under operation (BsMap, PlMap or CfMap)
  pre,     \* the value of m before the last operation
  op,      \* the last operation: its name, its arguments and whether it returned
  b0,      \* calc_cash_flow: the beginning balance sheet
  b1,      \* calc_cash_flow: the ending balance sheet
  plx,     \* calc_cash_flow: the profit and loss map
  rates,   \* calc_cash_flow: corp_tax, gp_tax, revenue_tax
  acc,     \* the Accounts store
  out      \* the value the last call returned, when it returns a new value

vars == <<stmt, m, pre, op, b0, b1, plx, rates, acc, out>>

---------------------------------------------------------------------------
(* Bounds of the model *)

\* Entered amounts and stale values range over -MaxVal..MaxVal units.
MaxVal == 2

---------------------------------------------------------------------------
(* Amounts and the materiality threshold *)

\* The number of model units in one currency unit (2^17): see the header.
UnitDen == 131072

\* The denominator of the materiality threshold: 1e-5 = 1 / 100000
\* (statements.rs:830, 840, 855, 917, 927, 942, 997, 1003, 1026, 1036, 1051).
ThresholdDen == 100000

Abs(x) == IF x < 0 THEN -x ELSE x

Max(x, y) == IF x >= y THEN x ELSE y

Min(x, y) == IF x <= y THEN x ELSE y

\* `p.abs() > 1e-5` for an amount of p units: p / UnitDen > 1 / ThresholdDen.
Material(p) == Abs(p) * ThresholdDen > UnitDen

---------------------------------------------------------------------------
(* HashMap primitives *)

EmptyMap == [x \in {} |-> 0]

\* HashMap::get(k).unwrap_or(&0.0): the value method of the three maps.
value(hm, k) == IF k \in DOMAIN hm THEN hm[k] ELSE 0

\* HashMap::insert(k, v)
Insert(hm, k, v) == (k :> v) @@ hm

\* HashMap::remove(k)
Remove(hm, k) == [x \in (DOMAIN hm) \ {k} |-> hm[x]]

\* HashMap::retain(keep): the entries whose key is in keep
Retain(hm, keep) == [x \in (DOMAIN hm) \cap keep |-> hm[x]]

---------------------------------------------------------------------------
(* Line-item taxonomies and roll-up rule tables *)

\* BsType (statements.rs:39-106): the Balance Sheet line items.
BsType ==
  {
    "Cash", "CurrentReceivables", "CurrentLoans", "CurrentAdvances",
    "OtherCurrentAssets", "CurrentInvestments", "Inventories",
    "RawMaterials", "WorkInProgress", "FinishedGoods", "CurrentAssets",
    "AccountReceivables", "LongTermLoanAssets", "LongTermAdvances",
    "LongTermInvestments", "OtherLongTermAssets", "PlantPropertyEquipment",
    "AccumulatedDepreciation", "NetPlantPropertyEquipment",
    "LeasingRentalAssets", "AccumulatedAmortizationLease",
    "NetLeaseRentalAssets", "Goodwill", "CapitalWip", "OtherTangibleAssets",
    "IntangibleAssets", "IntangibleAssetsDevelopment",
    "AccumulatedAmortization", "NetIntangibleAssets", "LongTermAssets",
    "Assets", "CurrentPayables", "CurrentBorrowings", "CurrentNotesPayable",
    "OtherCurrentLiabilities", "InterestPayable", "CurrentProvisions",
    "CurrentTaxPayables", "LiabilitiesSaleAssets", "CurrentLeasesLiability",
    "CurrentLiabilities", "AccountPayables", "LongTermBorrowings",
    "BondsPayable", "DeferredTaxLiabilities", "LongTermLeasesLiability",
    "DeferredCompensation", "DeferredRevenues", "CustomerDeposits",
    "OtherLongTermLiabilities", "PensionProvision", "TaxProvision",
    "LongTermProvision", "LongTermLiabilities", "Liabilities", "CommonStock",
    "PreferredStock", "PdInCapAbovePar", "PdInCapTreasuryStock",
    "RevaluationReserves", "Reserves", "RetainedEarnings", "AccumulatedOCI",
    "MinorityInterests", "Equity", "BalanceSheetCheck"
  }

\* PlType (statements.rs:114-169): the Profit and Loss line items.
PlType ==
  {
    "OperatingRevenue", "NonOperatingRevenue", "ExciseStaxLevy",
    "OtherIncome", "Revenue", "CostMaterial", "DirectExpenses", "COGS",
    "Salaries", "AdministrativeExpenses", "ResearchNDevelopment",
    "OtherOverheads", "OtherOperativeExpenses", "OtherExpenses",
    "ExceptionalItems", "GrossProfit", "EBITDA", "Depreciation",
    "TaxDepreciation", "AssetImpairment", "LossDivestitures", "Amortization",
    "EBITX", "InterestRevenue", "InterestExpense", "CostDebt",
    "OtherFinancialRevenue", "EBTX", "ExtraordinaryItems", "PriorYears",
    "EBT", "TaxesCurrent", "TaxesDeferred", "EAT",
    "NetIncomeDiscontinuedOps", "NetIncome", "Dividends",
    "ContributionRetainedEarnings", "GainsLossesForex",
    "GainsLossesActurial", "GrossSalesPPE", "GrossSalesLeaseRentalAssets",
    "GrossSalesIntangibleAssets", "AccAmortSalesPPE",
    "AccAmortSalesLeaseRental", "AccAmortSalesIntangible", "SalesAmountPPE",
    "SalesAmountLeaseRentalAssets", "SalesAmountIntangibleAssets",
    "GainsLossesSales", "FvChangeAvlSale", "OtherDeferredTaxes",
    "OtherComprehensiveIncome", "TotalComprehensiveIncome"
  }

\* CfType (statements.rs:177-209): the Cash Flow line items.
CfType ==
  {
    "ChangeCurrentAssets", "ChangeLongTermAssets",
    "ChangeCurrentLiabilities", "ChangeLongTermLiabilities",
    "ChangeProvisions", "ChangeRetainedEarnings",
    "AdjustmentsRetainedEarnings", "ChangeAccumulatedOci",
    "OtherCashFlowOperations", "CashFlowOperations", "ChangePPE",
    "ChangeReserves", "AdjustmentsSalesAssets", "InvestmentsCapDevp",
    "InvestmentsLoans", "ChangeEquityAssets", "ChangeInvestments",
    "OtherCashFlowInvestments", "CashFlowInvestments",
    "StockSalesAndPurchase", "ChangeDebt", "CashFlowInterests",
    "CashFlowDividends", "DonorContribution", "OtherCashFlowFinancing",
    "CashFlowFinancing", "NetCashFlow", "FreeCashFlowFirm",
    "CashFlowTaxShield", "FreeCashFlowEquity", "CashFlowDebt"
  }

\* FinOthersTyp (statements.rs:217-225): the keys of the others map (tax rates and ratios).
FinOthersTyp ==
  {
    "CorporateTaxRate", "GrossProfitTaxRate", "RevenueTaxRate",
    "CurrentRatio", "AcidRatio", "DaysOfInventory", "InventoryTurnoverRatio"
  }

\* BALANCE_SHEET_MAP (statements.rs:258-375): the Balance Sheet roll-up rules, in declared order.
\* Each rule is (target k, positive contributors, negative contributors).
BALANCE_SHEET_MAP ==
  <<
    [k |-> "Inventories",
     pos |-> <<"RawMaterials", "WorkInProgress", "FinishedGoods">>,
     neg |-> <<>>],
    [k |-> "CurrentAssets",
     pos |-> <<"Cash", "CurrentReceivables", "CurrentLoans",
               "CurrentAdvances", "OtherCurrentAssets", "CurrentInvestments",
               "Inventories">>,
     neg |-> <<>>],
    [k |-> "NetPlantPropertyEquipment",
     pos |-> <<"PlantPropertyEquipment">>,
     neg |-> <<"AccumulatedDepreciation">>],
    [k |-> "NetLeaseRentalAssets",
     pos |-> <<"LeasingRentalAssets">>,
     neg |-> <<"AccumulatedAmortizationLease">>],
    [k |-> "NetIntangibleAssets",
     pos |-> <<"IntangibleAssets", "IntangibleAssetsDevelopment">>,
     neg |-> <<"AccumulatedAmortization">>],
    [k |-> "LongTermAssets",
     pos |-> <<"AccountReceivables", "LongTermLoanAssets",
               "LongTermAdvances", "LongTermInvestments",
               "OtherLongTermAssets", "NetPlantPropertyEquipment",
               "NetLeaseRentalAssets", "Goodwill", "CapitalWip",
               "OtherTangibleAssets", "NetIntangibleAssets">>,
     neg |-> <<>>],
    [k |-> "Assets",
     pos |-> <<"CurrentAssets", "LongTermAssets">>,
     neg |-> <<>>],
    [k |-> "CurrentLiabilities",
     pos |-> <<"CurrentPayables", "CurrentBorrowings", "CurrentNotesPayable",
               "OtherCurrentLiabilities", "InterestPayable",
               "CurrentProvisions", "CurrentTaxPayables",
               "LiabilitiesSaleAssets", "CurrentLeasesLiability">>,
     neg |-> <<>>],
    [k |-> "LongTermLiabilities",
     pos |-> <<"AccountPayables", "LongTermBorrowings", "BondsPayable",
               "DeferredTaxLiabilities", "LongTermLeasesLiability",
               "DeferredCompensation", "DeferredRevenues",
               "CustomerDeposits", "OtherLongTermLiabilities",
               "PensionProvision", "TaxProvision", "LongTermProvision">>,
     neg |-> <<>>],
    [k |-> "Liabilities",
     pos |-> <<"CurrentLiabilities", "LongTermLiabilities">>,
     neg |-> <<>>],
    [k |-> "Equity",
     pos |-> <<"CommonStock", "PreferredStock", "PdInCapAbovePar",
               "PdInCapTreasuryStock", "RevaluationReserves", "Reserves",
               "RetainedEarnings", "AccumulatedOCI", "MinorityInterests">>,
     neg |-> <<>>],
    [k |-> "BalanceSheetCheck",
     pos |-> <<"Assets">>,
     neg |-> <<"Liabilities", "Equity">>]
  >>

\* PROFIT_LOSS_MAP (statements.rs:376-461): the Profit and Loss roll-up rules, in declared order.
\* Each rule is (target k, positive contributors, negative contributors).
PROFIT_LOSS_MAP ==
  <<
    [k |-> "Revenue",
     pos |-> <<"OperatingRevenue", "NonOperatingRevenue">>,
     neg |-> <<"ExciseStaxLevy">>],
    [k |-> "COGS",
     pos |-> <<"CostMaterial", "DirectExpenses">>,
     neg |-> <<>>],
    [k |-> "GrossProfit",
     pos |-> <<"Revenue">>,
     neg |-> <<"COGS">>],
    [k |-> "EBITDA",
     pos |-> <<"GrossProfit", "OtherIncome">>,
     neg |-> <<"Salaries", "AdministrativeExpenses", "ResearchNDevelopment",
               "OtherOverheads", "OtherOperativeExpenses", "OtherExpenses",
               "ExceptionalItems">>],
    [k |-> "EBITX",
     pos |-> <<"EBITDA">>,
     neg |-> <<"Depreciation", "AssetImpairment", "LossDivestitures",
               "Amortization">>],
    [k |-> "EBTX",
     pos |-> <<"EBITX", "InterestRevenue", "OtherFinancialRevenue">>,
     neg |-> <<"InterestExpense", "CostDebt">>],
    [k |-> "EBT",
     pos |-> <<"EBTX">>,
     neg |-> <<"ExtraordinaryItems", "PriorYears">>],
    [k |-> "EAT",
     pos |-> <<"EBT">>,
     neg |-> <<"TaxesCurrent", "TaxesDeferred">>],
    [k |-> "NetIncome",
     pos |-> <<"EAT", "NetIncomeDiscontinuedOps">>,
     neg |-> <<>>],
    [k |-> "ContributionRetainedEarnings",
     pos |-> <<"NetIncome">>,
     neg |-> <<"Dividends">>],
    [k |-> "GainsLossesSales",
     pos |-> <<"SalesAmountPPE", "SalesAmountLeaseRentalAssets",
               "SalesAmountIntangibleAssets", "AccAmortSalesPPE",
               "AccAmortSalesLeaseRental", "AccAmortSalesIntangible">>,
     neg |-> <<"GrossSalesPPE", "GrossSalesLeaseRentalAssets",
               "GrossSalesIntangibleAssets">>],
    [k |-> "OtherComprehensiveIncome",
     pos |-> <<"GainsLossesForex", "GainsLossesActurial", "GainsLossesSales",
               "FvChangeAvlSale">>,
     neg |-> <<"OtherDeferredTaxes">>],
    [k |-> "TotalComprehensiveIncome",
     pos |-> <<"NetIncome", "OtherComprehensiveIncome">>,
     neg |-> <<>>]
  >>

\* CASH_FLOW_MAP (statements.rs:462-534): the Cash Flow roll-up rules, in declared order.
\* Each rule is (target k, positive contributors, negative contributors).
CASH_FLOW_MAP ==
  <<
    [k |-> "CashFlowOperations",
     pos |-> <<"ChangeCurrentLiabilities", "ChangeLongTermLiabilities",
               "ChangeProvisions", "ChangeRetainedEarnings",
               "AdjustmentsRetainedEarnings", "ChangeAccumulatedOci",
               "OtherCashFlowOperations">>,
     neg |-> <<"ChangeCurrentAssets", "ChangeLongTermAssets">>],
    [k |-> "CashFlowInvestments",
     pos |-> <<"OtherCashFlowInvestments", "AdjustmentsSalesAssets",
               "ChangeReserves">>,
     neg |-> <<"ChangePPE", "InvestmentsCapDevp", "InvestmentsLoans",
               "ChangeEquityAssets", "ChangeInvestments">>],
    [k |-> "CashFlowFinancing",
     pos |-> <<"StockSalesAndPurchase", "ChangeDebt", "DonorContribution",
               "OtherCashFlowFinancing">>,
     neg |-> <<"CashFlowInterests", "CashFlowDividends">>],
    [k |-> "NetCashFlow",
     pos |-> <<"CashFlowOperations", "CashFlowInvestments",
               "CashFlowFinancing">>,
     neg |-> <<>>],
    [k |-> "FreeCashFlowEquity",
     pos |-> <<"CashFlowOperations", "ChangeDebt", "ChangeReserves",
               "AdjustmentsSalesAssets">>,
     neg |-> <<"CashFlowInterests", "ChangePPE">>],
    [k |-> "CashFlowDebt",
     pos |-> <<"CashFlowInterests">>,
     neg |-> <<"ChangeDebt">>],
    [k |-> "FreeCashFlowFirm",
     pos |-> <<"FreeCashFlowEquity", "CashFlowDebt">>,
     neg |-> <<"CashFlowTaxShield">>]
  >>

\* CASH_FLOW_BALANCE_SHEET (statements.rs:535-645): Cash Flow items derived from Balance Sheet movements.
\* Each rule is (target k, positive contributors, negative contributors).
CASH_FLOW_BALANCE_SHEET ==
  <<
    [k |-> "ChangeCurrentAssets",
     pos |-> <<"CurrentReceivables", "CurrentLoans", "CurrentAdvances",
               "OtherCurrentAssets", "CurrentInvestments", "RawMaterials",
               "WorkInProgress", "FinishedGoods">>,
     neg |-> <<>>],
    [k |-> "ChangeLongTermAssets",
     pos |-> <<"AccountReceivables", "LongTermAdvances", "CapitalWip">>,
     neg |-> <<"AccumulatedDepreciation", "AccumulatedAmortizationLease",
               "AccumulatedAmortization">>],
    [k |-> "ChangeCurrentLiabilities",
     pos |-> <<"CurrentPayables", "CurrentBorrowings", "CurrentNotesPayable",
               "OtherCurrentLiabilities", "InterestPayable",
               "CurrentProvisions", "CurrentTaxPayables",
               "LiabilitiesSaleAssets", "CurrentLeasesLiability">>,
     neg |-> <<>>],
    [k |-> "ChangeLongTermLiabilities",
     pos |-> <<"AccountPayables", "DeferredTaxLiabilities",
               "DeferredCompensation", "DeferredRevenues",
               "CustomerDeposits", "OtherLongTermLiabilities">>,
     neg |-> <<>>],
    [k |-> "ChangeProvisions",
     pos |-> <<"PensionProvision", "TaxProvision", "LongTermProvision">>,
     neg |-> <<>>],
    [k |-> "ChangeRetainedEarnings",
     pos |-> <<"RetainedEarnings">>,
     neg |-> <<>>],
    [k |-> "ChangeAccumulatedOci",
     pos |-> <<"AccumulatedOCI">>,
     neg |-> <<>>],
    [k |-> "ChangePPE",
     pos |-> <<"PlantPropertyEquipment", "LeasingRentalAssets">>,
     neg |-> <<>>],
    [k |-> "ChangeReserves",
     pos |-> <<"RevaluationReserves", "Reserves">>,
     neg |-> <<>>],
    [k |-> "InvestmentsCapDevp",
     pos |-> <<"IntangibleAssetsDevelopment">>,
     neg |-> <<>>],
    [k |-> "InvestmentsLoans",
     pos |-> <<"LongTermLoanAssets">>,
     neg |-> <<>>],
    [k |-> "ChangeEquityAssets",
     pos |-> <<"IntangibleAssets">>,
     neg |-> <<>>],
    [k |-> "ChangeInvestments",
     pos |-> <<"LongTermInvestments", "Goodwill">>,
     neg |-> <<>>],
    [k |-> "OtherCashFlowInvestments",
     pos |-> <<>>,
     neg |-> <<"OtherLongTermAssets", "OtherTangibleAssets">>],
    [k |-> "StockSalesAndPurchase",
     pos |-> <<"CommonStock", "PreferredStock", "PdInCapAbovePar",
               "PdInCapTreasuryStock">>,
     neg |-> <<>>],
    [k |-> "ChangeDebt",
     pos |-> <<"LongTermBorrowings", "BondsPayable",
               "LongTermLeasesLiability">>,
     neg |-> <<>>],
    [k |-> "OtherCashFlowFinancing",
     pos |-> <<"MinorityInterests">>,
     neg |-> <<>>]
  >>

\* CASH_FLOW_PROFIT_LOSS (statements.rs:646-674): Cash Flow items derived from Profit and Loss items.
\* Each rule is (target k, positive contributors, negative contributors).
CASH_FLOW_PROFIT_LOSS ==
  <<
    [k |-> "CashFlowInterests",
     pos |-> <<"InterestExpense", "CostDebt">>,
     neg |-> <<>>],
    [k |-> "CashFlowDividends",
     pos |-> <<"Dividends">>,
     neg |-> <<>>],
    [k |-> "AdjustmentsRetainedEarnings",
     pos |-> <<"InterestExpense", "CostDebt", "Dividends",
               "AccAmortSalesPPE", "AccAmortSalesLeaseRental",
               "AccAmortSalesIntangible">>,
     neg |-> <<"GainsLossesSales">>],
    [k |-> "AdjustmentsSalesAssets",
     pos |-> <<"GainsLossesSales">>,
     neg |-> <<"AccAmortSalesPPE", "AccAmortSalesLeaseRental",
               "AccAmortSalesIntangible">>]
  >>
---------------------------------------------------------------------------
(* Calculated items *)

Targets(table) == {table[i].k : i \in 1..Len(table)}

\* BALANCE_SHEET_CALC, PROFIT_LOSS_CALC, CASH_FLOW_CALC: the rule targets.
BALANCE_SHEET_CALC == Targets(BALANCE_SHEET_MAP)

PROFIT_LOSS_CALC == Targets(PROFIT_LOSS_MAP)

CASH_FLOW_CALC == Targets(CASH_FLOW_MAP)

\* FinType::is_calc, dispatched on the type of the item.
is_calc(k) ==
  CASE k \in BsType -> k \in BALANCE_SHEET_CALC
    [] k \in PlType -> k \in PROFIT_LOSS_CALC
    [] k \in CfType -> k \in CASH_FLOW_CALC
    [] OTHER -> FALSE

\* The line items and the roll-up table of a statement family.
Items(s) ==
  CASE s = "BS" -> BsType
    [] s = "PL" -> PlType
    [] s = "CF" -> CfType

\* A variant of RollUp that lists the rules of a table from last to first.
RollUp_LastRuleFirst(s) ==
  LET table == CASE s = "BS" -> BALANCE_SHEET_MAP
                 [] s = "PL" -> PROFIT_LOSS_MAP
                 [] s = "CF" -> CASH_FLOW_MAP
  IN  [i \in 1..Len(table) |-> table[Len(table) + 1 - i]]

RollUp(s) ==
  CASE s = "BS" -> BALANCE_SHEET_MAP
    [] s = "PL" -> PROFIT_LOSS_MAP
    [] s = "CF" -> CASH_FLOW_MAP

---------------------------------------------------------------------------
(* Statement map operations (impl FinMaps for BsMap, PlMap, CfMap) *)

RECURSIVE SumValues(_, _, _)
\* x.iter().map(|k| *hm.get(k).unwrap_or(&0.0)).sum() over x[i..]
SumValues(hm, x, i) ==
  IF i > Len(x) THEN 0 ELSE value(hm, x[i]) + SumValues(hm, x, i + 1)

\* A variant of calc_elem that adds the negative contributors.
calc_elem_AddsNegatives(hm, x, y) == SumValues(hm, x, 1) + SumValues(hm, y, 1)

\* calc_elem: the positive contributors' sum minus the negative ones'.
calc_elem(hm, x, y) == SumValues(hm, x, 1) - SumValues(hm, y, 1)

\* A variant of CalcRule that leaves a stale value in place.
CalcRule_KeepsStale(hm, rule) ==
  LET p == calc_elem(hm, rule.pos, rule.neg)
  IN  IF Material(p) THEN Insert(hm, rule.k, p) ELSE hm

\* One iteration of the loop of calc_elements: insert a material value,
\* remove the key otherwise.
CalcRule(hm, rule) ==
  LET p == calc_elem(hm, rule.pos, rule.neg)
  IN  IF Material(p) THEN Insert(hm, rule.k, p) ELSE Remove(hm, rule.k)

RECURSIVE CalcFrom_LastRuleFirst(_, _, _)
\* A variant of CalcFrom that walks the table from its last rule to its first.
CalcFrom_LastRuleFirst(table, i, hm) ==
  IF i > Len(table)
  THEN hm
  ELSE CalcRule(CalcFrom_LastRuleFirst(table, i + 1, hm), table[i])

RECURSIVE CalcFrom(_, _, _)
\* The loop of calc_elements over table[i..], in list order.
CalcFrom(table, i, hm) ==
  IF i > Len(table) THEN hm ELSE CalcFrom(table, i + 1, CalcRule(hm, table[i]))

\* calc_elements of BsMap, PlMap and CfMap.
calc_elements(s, hm) == CalcFrom(RollUp(s), 1, hm)

\* remove_calc_clean: retain(|k, v| !k.is_calc() && v.abs() > 1e-5)
remove_calc_clean(hm) ==
  Retain(hm, {k \in DOMAIN hm : ~is_calc(k) /\ Material(hm[k])})

\* clean: retain(|_, v| v.abs() > 1e-5)
clean(hm) == Retain(hm, {k \in DOMAIN hm : Material(hm[k])})

\* The outcome of a call that may panic: the map as the call left it, and
\* whether the call returned.
Returned(hm) == [map |-> hm, ok |-> TRUE]

Panicked(hm) == [map |-> hm, ok |-> FALSE]

\* The item common_size divides by: self[&Assets] of BsMap, self[&Revenue]
\* of PlMap, self[&NetCashFlow] of CfMap.
ScaleKey(s) ==
  CASE s = "BS" -> "Assets"
    [] s = "PL" -> "Revenue"
    [] s = "CF" -> "NetCashFlow"

RECURSIVE Gcd(_, _)
\* The greatest common divisor of two naturals.
Gcd(x, y) == IF y = 0 THEN x ELSE Gcd(y, x % y)

\* The f64 quotient v / scale of two amounts held as sign and magnitude
\* [neg, mag], the two zeros +0.0 and -0.0 being different amounts: NaN for
\* a zero over a zero, an infinity for a non-zero amount over a zero, else
\* the ratio num / den of the magnitudes in lowest terms (the quotient
\* before f64 rounds it); the sign of an infinity or a ratio is negative
\* when exactly one of the two signs is. The sign of a NaN is not modelled.
Divide(v, scale) ==
  LET neg == v.neg # scale.neg
  IN  IF scale.mag = 0
      THEN IF v.mag = 0
           THEN [class |-> "NaN", neg |-> FALSE, num |-> 0, den |-> 0]
           ELSE [class |-> IF neg THEN "-inf" ELSE "inf", neg |-> neg,
                 num |-> 0, den |-> 0]
      ELSE LET g == Gcd(v.mag, scale.mag)
           IN  [class |-> "finite", neg |-> neg, num |-> v.mag \div g,
                den |-> scale.mag \div g]

\* A variant of common_size that reads an absent scale item as +0.0.
common_size_AbsentAsZero(s, hm) ==
  Returned([k \in DOMAIN hm |->
              Divide(hm[k], IF ScaleKey(s) \in DOMAIN hm THEN hm[ScaleKey(s)]
                            ELSE [neg |-> FALSE, mag |-> 0])])

\* common_size: let scale = self[&key], which panics when the key is
\* absent; then every value divided by scale, collected in a new map.
common_size(s, hm) ==
  IF ScaleKey(s) \notin DOMAIN hm THEN Panicked(EmptyMap)
  ELSE Returned([k \in DOMAIN hm |-> Divide(hm[k], hm[ScaleKey(s)])])

\* add: panic on a calculated item, else *entry(k).or_insert(0.0) += v
add(hm, k, v) ==
  IF is_calc(k) THEN Panicked(hm) ELSE Returned(Insert(hm, k, value(hm, k) + v))

\* A variant of upsert without the guard on calculated items.
upsert_Unguarded(hm, k, v) == Returned(Insert(hm, k, v))

\* upsert: panic on a calculated item, else insert(k, v)
upsert(hm, k, v) ==
  IF is_calc(k) THEN Panicked(hm) ELSE Returned(Insert(hm, k, v))

RECURSIVE AddVecFrom(_, _, _)
\* add_vec: for (k, v) in x { self.add(*k, *v) }, from x[i] on; a panic
\* of add ends the loop with the earlier entries applied.
AddVecFrom(hm, x, i) ==
  IF i > Len(x)
  THEN Returned(hm)
  ELSE LET r == add(hm, x[i][1], x[i][2])
       IN  IF r.ok THEN AddVecFrom(r.map, x, i + 1) ELSE r

add_vec(hm, x) == AddVecFrom(hm, x, 1)

RECURSIVE UpsertVecFrom_LastFirst(_, _, _)
\* A variant of upsert_vec that takes the list from its last entry to its
\* first.
UpsertVecFrom_LastFirst(hm, x, i) ==
  IF i > Len(x)
  THEN Returned(hm)
  ELSE LET r == upsert(hm, x[Len(x) + 1 - i][1], x[Len(x) + 1 - i][2])
       IN  IF r.ok THEN UpsertVecFrom_LastFirst(r.map, x, i + 1) ELSE r

RECURSIVE UpsertVecFrom(_, _, _)
\* upsert_vec: for (k, v) in x { self.upsert(*k, *v) }, from x[i] on.
UpsertVecFrom(hm, x, i) ==
  IF i > Len(x)
  THEN Returned(hm)
  ELSE LET r == upsert(hm, x[i][1], x[i][2])
       IN  IF r.ok THEN UpsertVecFrom(r.map, x, i + 1) ELSE r

upsert_vec(hm, x) == UpsertVecFrom(hm, x, 1)

---------------------------------------------------------------------------
(* The debit/credit resolver and the postings (impl BsMapTrait for BsMap) *)

\* BALANCE_SHEET_HASHMAP: the rule of each calculated item; of two rules
\* with one target the later would replace the earlier.
BALANCE_SHEET_HASHMAP ==
  [k \in BALANCE_SHEET_CALC |->
     LET last == CHOOSE i \in 1..Len(BALANCE_SHEET_MAP) :
                   /\ BALANCE_SHEET_MAP[i].k = k
                   /\ \A j \in (i + 1)..Len(BALANCE_SHEET_MAP) :
                        BALANCE_SHEET_MAP[j].k # k
     IN  BALANCE_SHEET_MAP[last]]

RECURSIVE debit_mapping(_, _, _)
RECURSIVE DebitWalk(_, _, _, _)
\* One for loop of debit_mapping over list[i..]: the inserts it makes into
\* debit_map, in order, as pairs <<item, polarity>>.  A calculated
\* contributor is walked with the pair (here, other), an entered one is
\* given `here`.
DebitWalk(list, i, here, other) ==
  IF i > Len(list)
  THEN <<>>
  ELSE (IF list[i] \in BALANCE_SHEET_CALC
        THEN debit_mapping(list[i], here, other)
        ELSE <<(<<list[i], here>>)>>)
       \o DebitWalk(list, i + 1, here, other)

\* A variant of debit_mapping that walks the negative contributors with the
\* pair as it is.
debit_mapping_PairKept(calc_type, calc_pos, calc_neg) ==
  DebitWalk(BALANCE_SHEET_HASHMAP[calc_type].pos, 1, calc_pos, calc_neg)
    \o DebitWalk(BALANCE_SHEET_HASHMAP[calc_type].neg, 1, calc_pos, calc_neg)

\* debit_mapping: the inserts made for calc_type, the positive contributors
\* with (calc_pos, calc_neg), then the negative contributors with the pair
\* swapped.
debit_mapping(calc_type, calc_pos, calc_neg) ==
  DebitWalk(BALANCE_SHEET_HASHMAP[calc_type].pos, 1, calc_pos, calc_neg)
    \o DebitWalk(BALANCE_SHEET_HASHMAP[calc_type].neg, 1, calc_neg, calc_pos)

\* The map a sequence of inserts leaves in an empty map: each key holds the
\* value of its last insert.
Inserted(inserts) ==
  [k \in {inserts[i][1] : i \in 1..Len(inserts)} |->
     LET last == CHOOSE i \in 1..Len(inserts) :
                   /\ inserts[i][1] = k
                   /\ \A j \in (i + 1)..Len(inserts) : inserts[j][1] # k
     IN  inserts[last][2]]

\* A variant of DEBIT_TYPE that walks Liabilities with the asset pair.
DEBIT_TYPE_LiabilitiesAsAssets ==
  Inserted(debit_mapping("Assets", "AssetEntry", "AssetContra")
             \o debit_mapping("Liabilities", "AssetEntry", "AssetContra")
             \o debit_mapping("Equity", "EquityEntry", "EquityContra"))

\* DEBIT_TYPE: the walks from Assets, Liabilities and Equity, in this order,
\* into one map.
DEBIT_TYPE ==
  Inserted(debit_mapping("Assets", "AssetEntry", "AssetContra")
             \o debit_mapping("Liabilities", "LiabilityEntry", "LiabilityContra")
             \o debit_mapping("Equity", "EquityEntry", "EquityContra"))

\* A variant of debit that gives every item the sign of an asset entry.
debit_AlwaysAdds(hm, k, v) ==
  IF k \notin DOMAIN DEBIT_TYPE THEN Panicked(hm) ELSE add(hm, k, v)

\* A variant of debit that looks the polarity up with a default and writes
\* the entry itself.
debit_WritesDirectly(hm, k, v) ==
  IF k \in DOMAIN DEBIT_TYPE
        /\ DEBIT_TYPE[k] \notin {"AssetEntry", "LiabilityContra", "EquityContra"}
  THEN Returned(Insert(hm, k, value(hm, k) - v))
  ELSE Returned(Insert(hm, k, value(hm, k) + v))

\* debit: DEBIT_TYPE[&k] panics when k has no polarity; else add(k, v) for
\* AssetEntry, LiabilityContra and EquityContra and add(k, -v) otherwise.
debit(hm, k, v) ==
  IF k \notin DOMAIN DEBIT_TYPE
  THEN Panicked(hm)
  ELSE IF DEBIT_TYPE[k] \in {"AssetEntry", "LiabilityContra", "EquityContra"}
       THEN add(hm, k, v)
       ELSE add(hm, k, -v)

\* A variant of credit that passes the amount on unchanged.
credit_SameSign(hm, k, v) == debit(hm, k, v)

\* credit: debit(typ, -val)
credit(hm, k, v) == debit(hm, k, -v)

\* A variant of transact that debits both items.
transact_DebitsBoth(hm, deb, crd, val) ==
  LET d == debit(hm, deb, val)
  IN  IF d.ok THEN debit(d.map, crd, val) ELSE d

\* transact: self.debit(deb, val).credit(crd, val)
transact(hm, deb, crd, val) ==
  LET d == debit(hm, deb, val)
  IN  IF d.ok THEN credit(d.map, crd, val) ELSE d

RECURSIVE TransactFrom(_, _, _)
\* transact_series: for x in trans { self.transact(x) }, from trans[i] on.
TransactFrom(hm, trans, i) ==
  IF i > Len(trans)
  THEN Returned(hm)
  ELSE LET r == transact(hm, trans[i][1], trans[i][2], trans[i][3])
       IN  IF r.ok THEN TransactFrom(r.map, trans, i + 1) ELSE r

transact_series(hm, trans) == TransactFrom(hm, trans, 1)

---------------------------------------------------------------------------
(* Cash-flow derivation (depreciation_tax_adjust, calc_cash_flow) *)

\* depreciation_tax_adjust: Depreciation less TaxDepreciation when the
\* latter is present, else 0.
depreciation_tax_adjust(pl) ==
  IF "TaxDepreciation" \in DOMAIN pl
  THEN value(pl, "Depreciation") - pl["TaxDepreciation"]
  ELSE 0

\* A variant of the profit-and-loss element that leaves out the negative
\* contributors.
ProfitLossElem_PositiveOnly(pl, rule) == SumValues(pl, rule.pos, 1)

\* The element of a profit-and-loss rule: calc_elem(pl, d, b).
ProfitLossElem(pl, rule) == calc_elem(pl, rule.pos, rule.neg)

\* A variant of the balance-sheet element that reads the closing balance
\* sheet only.
BalanceSheetElem_ClosingOnly(b_0, b_1, rule) ==
  calc_elem(b_1, rule.pos, rule.neg)

\* A variant of the balance-sheet element that subtracts the closing from
\* the opening balance sheet.
BalanceSheetElem_OpeningLessClosing(b_0, b_1, rule) ==
  calc_elem(b_0, rule.pos, rule.neg) - calc_elem(b_1, rule.pos, rule.neg)

\* The element of a balance-sheet rule: calc_elem(b1, d, b) - calc_elem(b0, d, b).
BalanceSheetElem(b_0, b_1, rule) ==
  calc_elem(b_1, rule.pos, rule.neg) - calc_elem(b_0, rule.pos, rule.neg)

RECURSIVE ProfitLossInserts(_, _)
\* The first for loop of calc_cash_flow from rule i on: the inserts it
\* makes into cf, in order.
ProfitLossInserts(pl, i) ==
  IF i > Len(CASH_FLOW_PROFIT_LOSS)
  THEN <<>>
  ELSE LET elem == ProfitLossElem(pl, CASH_FLOW_PROFIT_LOSS[i])
       IN  (IF Material(elem)
            THEN <<(<<CASH_FLOW_PROFIT_LOSS[i].k, elem>>)>>
            ELSE <<>>)
           \o ProfitLossInserts(pl, i + 1)

RECURSIVE BalanceSheetInserts(_, _, _)
\* The second for loop of calc_cash_flow from rule i on.
BalanceSheetInserts(b_0, b_1, i) ==
  IF i > Len(CASH_FLOW_BALANCE_SHEET)
  THEN <<>>
  ELSE LET elem == BalanceSheetElem(b_0, b_1, CASH_FLOW_BALANCE_SHEET[i])
       IN  (IF Material(elem)
            THEN <<(<<CASH_FLOW_BALANCE_SHEET[i].k, elem>>)>>
            ELSE <<>>)
           \o BalanceSheetInserts(b_0, b_1, i + 1)

\* calc_cash_flow: the two loops into a new map, then CashFlowTaxShield.
\* The tax rates are whole numbers, so that the products are exact.
calc_cash_flow(b_0, b_1, pl, corp_tax, gp_tax, revenue_tax) ==
  LET cf == Inserted(ProfitLossInserts(pl, 1)
                       \o BalanceSheetInserts(b_0, b_1, 1))
      intr == value(cf, "CashFlowInterests")
      ebit_tx == corp_tax * (value(pl, "EBT") + intr
                               + depreciation_tax_adjust(pl))
      gr_tx == gp_tax * value(pl, "GrossProfit")
      rev_tx == revenue_tax * value(pl, "Revenue")
  IN  Insert(cf, "CashFlowTaxShield",
             Min(corp_tax * intr, Max(0, ebit_tx + gr_tx - rev_tx)))

---------------------------------------------------------------------------
(* Amounts beyond the exact range of f64                                   *)
(* An f64 holds every whole number of units up to 2^53 exactly; a sum of   *)
(* greater magnitude is rounded to the nearest f64, ties to the even       *)
(* mantissa.  <<hi, lo>> stands for the amount of hi * 2^53 + lo units,    *)
(* with hi in -3..3 and lo small, so that the `+=` of add rounds as the    *)
(* f64 addition does.                                                      *)

\* -v
f64_neg(v) == <<-v[1], -v[2]>>

\* The spacing of the f64 values around h * 2^53 + t units, 1 <= h <= 3:
\* below 2^53 it is 1 unit, from 2^53 to 2^54 it is 2, from 2^54 to 2^55
\* it is 4.
f64_spacing(h, t) ==
  CASE h = 1 -> IF t < 0 THEN 1 ELSE 2
    [] h = 2 -> IF t < 0 THEN 2 ELSE 4
    [] h = 3 -> 4

\* t rounded to the nearest multiple of q, a tie to the multiple whose
\* quotient by q is even.
f64_round(t, q) ==
  LET below == (t \div q) * q
      rest == t - below
  IN  IF 2 * rest < q THEN below
      ELSE IF 2 * rest > q THEN below + q
      ELSE IF (below \div q) % 2 = 0 THEN below ELSE below + q

\* a + b in f64: the exact sum when its magnitude is below 2^53 units,
\* else the sum rounded to the spacing of the f64 values around it.
f64_add(a, b) ==
  LET hi == a[1] + b[1]
      lo == a[2] + b[2]
  IN  IF hi = 0 THEN <<0, lo>>
      ELSE LET sign == IF hi > 0 THEN 1 ELSE -1
               t == sign * lo
           IN  <<hi, sign * f64_round(t, f64_spacing(sign * hi, t))>>

\* value: get(k).unwrap_or(&0.0)
value_f64(hm, k) == IF k \in DOMAIN hm THEN hm[k] ELSE <<0, 0>>

\* add: panic on a calculated item, else *entry(k).or_insert(0.0) += v
add_f64(hm, k, v) ==
  IF is_calc(k) THEN Panicked(hm)
  ELSE Returned(Insert(hm, k, f64_add(value_f64(hm, k), v)))

\* debit: as debit, on amounts of any magnitude.
debit_f64(hm, k, v) ==
  IF k \notin DOMAIN DEBIT_TYPE
  THEN Panicked(hm)
  ELSE IF DEBIT_TYPE[k] \in {"AssetEntry", "LiabilityContra", "EquityContra"}
       THEN add_f64(hm, k, v)
       ELSE add_f64(hm, k, f64_neg(v))

\* A variant of credit that passes the amount on unchanged.
credit_f64_SameSign(hm, k, v) == debit_f64(hm, k, v)

\* credit: debit(typ, -val)
credit_f64(hm, k, v) == debit_f64(hm, k, f64_neg(v))

---------------------------------------------------------------------------
(* The Accounts store: point mutators *)

\* An Accounts value: the date set, the balance sheets by date, and the
\* profit and loss, cash flow and others maps by period <<begin, end>>.
\* (currency and consolidated are never read by the operations modelled.)
Accounts(dates, bs, pl, cf, oth) ==
  [dates |-> dates, balance_sheet |-> bs, profit_loss |-> pl,
   cash_flow |-> cf, others |-> oth]

\* The outcome of a call on the store that may panic.
StoreReturned(a) == [acc |-> a, ok |-> TRUE]

StorePanicked(a) == [acc |-> a, ok |-> FALSE]

\* A variant of put_balance_sheet that derives the balance sheet anew.
put_balance_sheet_Derives(a, d, ty, val) ==
  IF is_calc(ty) THEN StorePanicked(a)
  ELSE IF d \notin DOMAIN a.balance_sheet THEN StorePanicked(a)
  ELSE StoreReturned(
         [a EXCEPT !.balance_sheet[d] =
            calc_elements("BS", Insert(a.balance_sheet[d], ty, val))])

\* put_balance_sheet: panic on a calculated item; get_mut(&d).unwrap()
\* panics when no balance sheet is stored at d; else insert(ty, val).
put_balance_sheet(a, d, ty, val) ==
  IF is_calc(ty) THEN StorePanicked(a)
  ELSE IF d \notin DOMAIN a.balance_sheet THEN StorePanicked(a)
  ELSE StoreReturned(
         [a EXCEPT !.balance_sheet[d] = Insert(a.balance_sheet[d], ty, val)])

\* put_profit_loss: the same on profit_loss, keyed by period.
put_profit_loss(a, d, ty, val) ==
  IF is_calc(ty) THEN StorePanicked(a)
  ELSE IF d \notin DOMAIN a.profit_loss THEN StorePanicked(a)
  ELSE StoreReturned(
         [a EXCEPT !.profit_loss[d] = Insert(a.profit_loss[d], ty, val)])

\* put_cash_flow: the same on cash_flow, keyed by period.
put_cash_flow(a, d, ty, val) ==
  IF is_calc(ty) THEN StorePanicked(a)
  ELSE IF d \notin DOMAIN a.cash_flow THEN StorePanicked(a)
  ELSE StoreReturned(
         [a EXCEPT !.cash_flow[d] = Insert(a.cash_flow[d], ty, val)])

---------------------------------------------------------------------------
(* The Accounts store: queries and whole-store operations *)

\* Option<T>: None, or Some(x) holding x.
None == <<>>

Some(x) == <<x>>

\* Duration::days(120) in split_periods, in days.
PeriodSplitDays == 120

\* split_periods: the pair (annual, quarterly) of sets of profit_loss keys;
\* the first filter keeps d0 + 120 days < d1, the second d0 + 120 days > d1.
split_periods(a) ==
  << {p \in DOMAIN a.profit_loss : p[1] + PeriodSplitDays < p[2]},
     {p \in DOMAIN a.profit_loss : p[1] + PeriodSplitDays > p[2]} >>

\* Accounts::remove_calc_clean: remove_calc_clean on every balance sheet,
\* profit and loss and cash flow (values_mut keeps the keys).
Accounts_remove_calc_clean_SkipsCashFlow(a) ==
  [a EXCEPT
     !.balance_sheet = [d \in DOMAIN @ |-> remove_calc_clean(@[d])],
     !.profit_loss = [p \in DOMAIN @ |-> remove_calc_clean(@[p])]]

Accounts_remove_calc_clean(a) ==
  [a EXCEPT
     !.balance_sheet = [d \in DOMAIN @ |-> remove_calc_clean(@[d])],
     !.profit_loss = [p \in DOMAIN @ |-> remove_calc_clean(@[p])],
     !.cash_flow = [p \in DOMAIN @ |-> remove_calc_clean(@[p])]]

\* Accounts::calc_elements: calc_elements on every stored statement.
Accounts_calc_elements(a) ==
  [a EXCEPT
     !.balance_sheet = [d \in DOMAIN a.balance_sheet |->
                          calc_elements("BS", a.balance_sheet[d])],
     !.profit_loss = [p \in DOMAIN a.profit_loss |->
                        calc_elements("PL", a.profit_loss[p])],
     !.cash_flow = [p \in DOMAIN a.cash_flow |->
                      calc_elements("CF", a.cash_flow[p])]]

\* get_hashmap inside get_account: Some(h.get(&k)?.clone()).
get_hashmap(k, h) == IF k \in DOMAIN h THEN Some(h[k]) ELSE None

\* The struct FinancialReport.
FinancialReport(d0, d1, bs_beg, bs_end, pl, cf, oth) ==
  [date_beg |-> d0, date_end |-> d1,
   balance_sheet_beg |-> bs_beg, balance_sheet_end |-> bs_end,
   profit_loss |-> pl, cash_flow |-> cf, others |-> oth]

\* get_account: None when profit_loss has no key (d0, d1); else the report
\* of the period, each other statement being Some(clone) when stored.
get_account_UnwrapsSnapshots(a, d0, d1) ==
  IF <<d0, d1>> \in DOMAIN a.profit_loss
     /\ d0 \in DOMAIN a.balance_sheet /\ d1 \in DOMAIN a.balance_sheet
  THEN Some(FinancialReport(d0, d1,
              Some(a.balance_sheet[d0]), Some(a.balance_sheet[d1]),
              Some(a.profit_loss[<<d0, d1>>]),
              get_hashmap(<<d0, d1>>, a.cash_flow),
              get_hashmap(<<d0, d1>>, a.others)))
  ELSE None

get_account(a, d0, d1) ==
  IF <<d0, d1>> \in DOMAIN a.profit_loss
  THEN Some(FinancialReport(d0, d1,
              get_hashmap(d0, a.balance_sheet),
              get_hashmap(d1, a.balance_sheet),
              Some(a.profit_loss[<<d0, d1>>]),
              get_hashmap(<<d0, d1>>, a.cash_flow),
              get_hashmap(<<d0, d1>>, a.others)))
  ELSE None

\* The order of the keys (NDt, NDt) of a BTreeMap: by begin, then by end.
PeriodBefore(p, q) == p[1] < q[1] \/ (p[1] = q[1] /\ p[2] < q[2])

\* BTreeMap::keys(): the keys in ascending order.
RECURSIVE KeysInOrder(_)
KeysInOrder(S) ==
  IF S = {} THEN <<>>
  ELSE LET p == CHOOSE x \in S : \A y \in S \ {x} : PeriodBefore(x, y)
       IN  <<p>> \o KeysInOrder(S \ {p})

TaxRateKeys == {"CorporateTaxRate", "GrossProfitTaxRate", "RevenueTaxRate"}

RECURSIVE CashFlowsMergedFrom(_, _, _)
\* A variant of the loop that writes the derived items into the cash flow
\* the period has, keeping its other entries.
CashFlowsMergedFrom(a, keys, i) ==
  IF i > Len(keys) THEN StoreReturned(a)
  ELSE LET p == keys[i] IN
    IF p[1] \in DOMAIN a.balance_sheet /\ p[2] \in DOMAIN a.balance_sheet
    THEN IF p \notin DOMAIN a.others THEN StorePanicked(a)
         ELSE IF ~(TaxRateKeys \subseteq DOMAIN a.others[p])
              THEN StorePanicked(a)
         ELSE LET oth == a.others[p]
                  cf == calc_cash_flow(a.balance_sheet[p[1]],
                                       a.balance_sheet[p[2]],
                                       a.profit_loss[p],
                                       oth["CorporateTaxRate"],
                                       oth["GrossProfitTaxRate"],
                                       oth["RevenueTaxRate"])
                  had == IF p \in DOMAIN a.cash_flow THEN a.cash_flow[p]
                         ELSE EmptyMap
                  next == [a EXCEPT !.cash_flow =
                             Insert(@, p, calc_elements("CF", cf @@ had))]
              IN  CashFlowsMergedFrom(next, keys, i + 1)
    ELSE CashFlowsMergedFrom(a, keys, i + 1)

\* The loop of Accounts::calc_cash_flow from the i-th key on: a period with
\* a balance sheet at both dates gets calc_cash_flow(..).calc_elements()
\* inserted in cash_flow; others.get(..).unwrap() panics when the period
\* has no others map and oth[&rate] panics when the map lacks a rate.
RECURSIVE CashFlowsFrom(_, _, _)
CashFlowsFrom(a, keys, i) ==
  IF i > Len(keys) THEN StoreReturned(a)
  ELSE LET p == keys[i] IN
    IF p[1] \in DOMAIN a.balance_sheet /\ p[2] \in DOMAIN a.balance_sheet
    THEN IF p \notin DOMAIN a.others THEN StorePanicked(a)
         ELSE IF ~(TaxRateKeys \subseteq DOMAIN a.others[p])
              THEN StorePanicked(a)
         ELSE LET oth == a.others[p]
                  cf == calc_cash_flow(a.balance_sheet[p[1]],
                                       a.balance_sheet[p[2]],
                                       a.profit_loss[p],
                                       oth["CorporateTaxRate"],
                                       oth["GrossProfitTaxRate"],
                                       oth["RevenueTaxRate"])
                  next == [a EXCEPT !.cash_flow =
                             Insert(@, p, calc_elements("CF", cf))]
              IN  CashFlowsFrom(next, keys, i + 1)
    ELSE CashFlowsFrom(a, keys, i + 1)

Accounts_calc_cash_flow_SkipsFirstPeriod(a) ==
  CashFlowsFrom(a, KeysInOrder(DOMAIN a.profit_loss), 2)

\* Accounts::calc_cash_flow.
Accounts_calc_cash_flow(a) ==
  CashFlowsFrom(a, KeysInOrder(DOMAIN a.profit_loss), 1)

\* The outcome of a call on a report that may panic.
ReportReturned(r) == [report |-> r, ok |-> TRUE]

ReportPanicked(r) == [report |-> r, ok |-> FALSE]

\* get_hm inside FinancialReport::calc_elements: None, or Some of the
\* statement of family s with calc_elements applied.
get_hm(s, h) == IF h = None THEN None ELSE Some(calc_elements(s, h[1]))

\* A variant of FinancialReport::calc_elements that leaves the cash flow of
\* the report in place when a balance sheet is missing.
FinancialReport_calc_elements_KeepsCashFlow(r) ==
  IF r.profit_loss = None THEN ReportPanicked(r)
  ELSE IF r.others = None THEN ReportPanicked(r)
  ELSE LET pl == get_hm("PL", r.profit_loss)[1]
           b_beg == get_hm("BS", r.balance_sheet_beg)
           b_end == get_hm("BS", r.balance_sheet_end)
           oth == r.others[1]
       IN  IF b_beg # None /\ b_end # None
           THEN IF ~(TaxRateKeys \subseteq DOMAIN oth) THEN ReportPanicked(r)
                ELSE ReportReturned(
                       [r EXCEPT
                          !.balance_sheet_beg = b_beg,
                          !.balance_sheet_end = b_end,
                          !.profit_loss = Some(pl),
                          !.cash_flow =
                            Some(calc_elements("CF",
                                   calc_cash_flow(b_beg[1], b_end[1], pl,
                                                  oth["CorporateTaxRate"],
                                                  oth["GrossProfitTaxRate"],
                                                  oth["RevenueTaxRate"])))])
           ELSE ReportReturned(
                  [r EXCEPT
                     !.balance_sheet_beg = b_beg,
                     !.balance_sheet_end = b_end,
                     !.profit_loss = Some(pl)])

\* FinancialReport::calc_elements: the profit and loss (unwrap: panic when
\* None) and the balance sheets derived, others unwrapped (panic when
\* None); with both balance sheets the cash flow is
\* calc_cash_flow(..).calc_elements() (oth[&rate] panics on a missing rate),
\* else None.
FinancialReport_calc_elements(r) ==
  IF r.profit_loss = None THEN ReportPanicked(r)
  ELSE IF r.others = None THEN ReportPanicked(r)
  ELSE LET pl == get_hm("PL", r.profit_loss)[1]
           b_beg == get_hm("BS", r.balance_sheet_beg)
           b_end == get_hm("BS", r.balance_sheet_end)
           oth == r.others[1]
       IN  IF b_beg # None /\ b_end # None
           THEN IF ~(TaxRateKeys \subseteq DOMAIN oth) THEN ReportPanicked(r)
                ELSE ReportReturned(
                       [r EXCEPT
                          !.balance_sheet_beg = b_beg,
                          !.balance_sheet_end = b_end,
                          !.profit_loss = Some(pl),
                          !.cash_flow =
                            Some(calc_elements("CF",
                                   calc_cash_flow(b_beg[1], b_end[1], pl,
                                                  oth["CorporateTaxRate"],
                                                  oth["GrossProfitTaxRate"],
                                                  oth["RevenueTaxRate"])))])
           ELSE ReportReturned(
                  [r EXCEPT
                     !.balance_sheet_beg = b_beg,
                     !.balance_sheet_end = b_end,
                     !.profit_loss = Some(pl),
                     !.cash_flow = None])

\* The amount calc_tax puts in TaxesCurrent: the greater of the tax on
\* adjusted EBT plus the tax on EBITDA, and the tax on Revenue; a rate the
\* others map lacks counts as 0.
TaxAmount(pl, oth) ==
  LET ebt == value(pl, "EBT") + depreciation_tax_adjust(pl)
      ct == value(oth, "CorporateTaxRate")
      gt == value(oth, "GrossProfitTaxRate")
      mt == value(oth, "RevenueTaxRate")
  IN  Max(ebt * ct + value(pl, "EBITDA") * gt, value(pl, "Revenue") * mt)

\* The loop of calc_tax from the i-th period on: others.get(y).unwrap()
\* panics when the period has no others map; else put_profit_loss.
RECURSIVE TaxesFrom(_, _, _)
TaxesFrom(a, keys, i) ==
  IF i > Len(keys) THEN StoreReturned(a)
  ELSE LET y == keys[i] IN
    IF y \notin DOMAIN a.others THEN StorePanicked(a)
    ELSE LET r == put_profit_loss(a, y, "TaxesCurrent",
                                  TaxAmount(a.profit_loss[y], a.others[y]))
         IN  IF r.ok THEN TaxesFrom(r.acc, keys, i + 1) ELSE r

\* calc_tax: calc_elements on the store, then TaxesCurrent of every period.
calc_tax(a) ==
  LET derived == Accounts_calc_elements(a)
  IN  TaxesFrom(derived, KeysInOrder(DOMAIN derived.profit_loss), 1)

RECURSIVE DatesReplacedFrom(_, _, _)
\* A variant of the loop that starts the date set afresh at the first key.
DatesReplacedFrom(a, keys, i) ==
  IF i > Len(keys) THEN StoreReturned(a)
  ELSE IF keys[i][1] > keys[i][2] THEN StorePanicked(a)
  ELSE DatesReplacedFrom(
         [a EXCEPT !.dates = (IF i = 1 THEN {} ELSE @) \cup {keys[i][1], keys[i][2]}],
         keys, i + 1)

RECURSIVE DatesOfBeginFrom(_, _, _)
\* A variant of the loop that inserts the begin of a period only.
DatesOfBeginFrom(a, keys, i) ==
  IF i > Len(keys) THEN StoreReturned(a)
  ELSE IF keys[i][1] > keys[i][2] THEN StorePanicked(a)
  ELSE DatesOfBeginFrom([a EXCEPT !.dates = @ \cup {keys[i][1]}], keys, i + 1)

\* The loop of set_dates_from_profit_loss from the i-th key on: panic on a
\* key with d0 > d1, else insert d0 and d1 in dates.
RECURSIVE DatesFrom(_, _, _)
DatesFrom(a, keys, i) ==
  IF i > Len(keys) THEN StoreReturned(a)
  ELSE IF keys[i][1] > keys[i][2] THEN StorePanicked(a)
  ELSE DatesFrom([a EXCEPT !.dates = @ \cup {keys[i][1], keys[i][2]}],
                 keys, i + 1)

\* set_dates_from_profit_loss.
set_dates_from_profit_loss(a) ==
  DatesFrom(a, KeysInOrder(DOMAIN a.profit_loss), 1)

\* The three rates as set_tax_rates writes them.
RatesOf(corp_tax, gross_profit_tax, revenue_tax) ==
  ("CorporateTaxRate" :> corp_tax) @@ ("GrossProfitTaxRate" :> gross_profit_tax)
    @@ ("RevenueTaxRate" :> revenue_tax)

\* A variant of set_tax_rates that leaves the others maps already stored.
set_tax_rates_NewMapsOnly(a, corp_tax, gross_profit_tax, revenue_tax) ==
  [a EXCEPT !.others =
     [y \in DOMAIN a.others \cup DOMAIN a.profit_loss |->
        IF y \in DOMAIN a.others THEN a.others[y]
        ELSE RatesOf(corp_tax, gross_profit_tax, revenue_tax)]]

\* set_tax_rates: for every key of profit_loss, the three rates inserted in
\* the others map of the period, or a new map of the three rates stored.
set_tax_rates(a, corp_tax, gross_profit_tax, revenue_tax) ==
  [a EXCEPT !.others =
     [y \in DOMAIN a.others \cup DOMAIN a.profit_loss |->
        IF y \notin DOMAIN a.profit_loss THEN a.others[y]
        ELSE IF y \in DOMAIN a.others
        THEN RatesOf(corp_tax, gross_profit_tax, revenue_tax) @@ a.others[y]
        ELSE RatesOf(corp_tax, gross_profit_tax, revenue_tax)]]

---------------------------------------------------------------------------
(* The record of the last operation *)

NoKey == "-"

\* name: the method; at: the date or period addressed in the Accounts store;
\* key, key2: line items; val: the amount; vec: a list argument;
\* ok: TRUE when the call returned, FALSE when it panicked.
OpRec(name, at, k, k2, v, x, ok) ==
  [name |-> name, at |-> at, key |-> k, key2 |-> k2, val |-> v, vec |-> x,
   ok |-> ok]

\* No operation yet: the state after construction.
Constructed == OpRec("new", NoKey, NoKey, NoKey, 0, <<>>, TRUE)

Families == {"BS", "PL", "CF"}

Vals == (-MaxVal)..MaxVal

\* Every map whose keys are among keys and whose values are in Vals.
MapsOver(keys) == UNION {[d -> Vals] : d \in SUBSET keys}

\* The variables a specification does not use keep their initial value.
NoCashFlowInputs ==
  /\ b0 = EmptyMap
  /\ b1 = EmptyMap
  /\ plx = EmptyMap
  /\ rates = <<0, 0, 0>>

NoAccounts == acc = EmptyMap

\* No value returned yet.
NoResult == [kind |-> "none", val |-> <<>>]

---------------------------------------------------------------------------
(* Spec: derivation and cleaning of one statement map.                     *)
(* A map is built directly (HashMap::from), so it may hold entered keys,   *)
(* zero values and stale values of calculated keys; then calc_elements,    *)
(* remove_calc_clean and clean are applied in any order.                   *)

\* The keys of the maps Spec starts from: per family, entered items that
\* are positive and negative contributors at different depths of the
\* roll-up, and two calculated items that may hold stale values.
DeriveKeys(s) ==
  CASE s = "BS" -> {"RawMaterials", "AccumulatedDepreciation", "CommonStock",
                    "Inventories", "Assets"}
    [] s = "PL" -> {"OperatingRevenue", "ExciseStaxLevy", "TaxesCurrent",
                    "Revenue", "EAT"}
    [] s = "CF" -> {"ChangeCurrentAssets", "ChangeDebt", "CashFlowTaxShield",
                    "CashFlowFinancing", "NetCashFlow"}

Init ==
  /\ stmt \in Families
  /\ m \in MapsOver(DeriveKeys(stmt))
  /\ pre = m
  /\ op = Constructed
  /\ out = NoResult
  /\ NoCashFlowInputs
  /\ NoAccounts

Idle == UNCHANGED <<stmt, b0, b1, plx, rates, acc, out>>

\* m.calc_elements()
CalcElements ==
  /\ op.ok
  /\ m' = calc_elements(stmt, m)
  /\ pre' = m
  /\ op' = OpRec("calc_elements", NoKey, NoKey, NoKey, 0, <<>>, TRUE)
  /\ Idle

\* m.remove_calc_clean()
RemoveCalcClean ==
  /\ op.ok
  /\ m' = remove_calc_clean(m)
  /\ pre' = m
  /\ op' = OpRec("remove_calc_clean", NoKey, NoKey, NoKey, 0, <<>>, TRUE)
  /\ Idle

\* m.clean()
Clean ==
  /\ op.ok
  /\ m' = clean(m)
  /\ pre' = m
  /\ op' = OpRec("clean", NoKey, NoKey, NoKey, 0, <<>>, TRUE)
  /\ Idle

Next == CalcElements \/ RemoveCalcClean \/ Clean

Spec == Init /\ [][Next]_vars

---------------------------------------------------------------------------
(* SpecEnter: entering values.                                             *)
(* Either one statement map receives add, upsert, add_vec and upsert_vec   *)
(* calls, or an Accounts store receives put_balance_sheet,                 *)
(* put_profit_loss and put_cash_flow calls.  The item of a call may be an  *)
(* entered or a calculated item, and the date or period of a put_* may     *)
(* have no stored map.  pre holds the map, or the store, before the call.  *)

\* The longest list passed to add_vec and upsert_vec.
MaxVecLen == 2

\* Two entered items per family and one calculated item.
Entered1(s) ==
  CASE s = "BS" -> "Cash" [] s = "PL" -> "OperatingRevenue"
    [] s = "CF" -> "DonorContribution"

Entered2(s) ==
  CASE s = "BS" -> "RawMaterials" [] s = "PL" -> "Salaries"
    [] s = "CF" -> "ChangeDebt"

Calculated1(s) ==
  CASE s = "BS" -> "Assets" [] s = "PL" -> "EBITDA" [] s = "CF" -> "NetCashFlow"

EnterKeys(s) == {Entered1(s), Entered2(s), Calculated1(s)}

\* The (item, amount) pairs of the lists: an item twice with different
\* amounts, a second item, and a calculated item.
VecPairs(s) ==
  {<<Entered1(s), 1>>, <<Entered1(s), MaxVal>>, <<Entered2(s), 1>>,
   <<Calculated1(s), 1>>}

RECURSIVE ListsUpTo(_, _)
\* The lists of at most n elements of a set.
ListsUpTo(set, n) ==
  IF n = 0
  THEN {<<>>}
  ELSE LET shorter == ListsUpTo(set, n - 1)
       IN  shorter \cup {Append(l, p) : l \in shorter, p \in set}

\* The dates and the period of the store.
EnterDates == {1, 2}

EnterPeriod == <<1, 2>>

\* A map from the keys of set d (a set of no or one date or period) to maps
\* over one item.
StoredOver(keys, item) ==
  UNION {[d -> MapsOver({item})] : d \in SUBSET keys}

\* The stores SpecEnter starts from: a balance sheet at the first date and
\* possibly at the second, and possibly a profit and loss and a cash flow
\* map for the period.
EnterStores ==
  {Accounts(EnterDates, bs, pl, cf, EmptyMap) :
     bs \in {f \in StoredOver(EnterDates, "Cash") : 1 \in DOMAIN f},
     pl \in StoredOver({EnterPeriod}, "Salaries"),
     cf \in StoredOver({EnterPeriod}, "DonorContribution")}

InitEnter ==
  /\ \/ /\ stmt \in Families
        /\ m \in MapsOver(EnterKeys(stmt))
        /\ pre = m
        /\ NoAccounts
     \/ /\ stmt = "ACC"
        /\ m = EmptyMap
        /\ acc \in EnterStores
        /\ pre = acc
  /\ op = Constructed
  /\ out = NoResult
  /\ NoCashFlowInputs

\* A call is made on a map or store as constructed or as left by the
\* calls before it (see NextCall).
Fresh == op.name = "new"

InRange(hm) == \A k \in DOMAIN hm : hm[k] \in Vals

\* The effect of a call on the map m with outcome r.
MapCall(name, k, v, x, r) ==
  /\ m' = r.map
  /\ pre' = m
  /\ op' = OpRec(name, NoKey, k, NoKey, v, x, r.ok)
  /\ UNCHANGED <<stmt, b0, b1, plx, rates, acc, out>>

\* m.add(k, v); the accumulated amount stays within the bounds of the model.
Add ==
  /\ Fresh /\ stmt \in Families
  /\ \E k \in EnterKeys(stmt), v \in Vals :
       /\ InRange(add(m, k, v).map)
       /\ MapCall("add", k, v, <<>>, add(m, k, v))

\* m.upsert(k, v)
Upsert ==
  /\ Fresh /\ stmt \in Families
  /\ \E k \in EnterKeys(stmt), v \in Vals :
       MapCall("upsert", k, v, <<>>, upsert(m, k, v))

\* m.add_vec(&x)
AddVec ==
  /\ Fresh /\ stmt \in Families
  /\ \E x \in ListsUpTo(VecPairs(stmt), MaxVecLen) :
       /\ InRange(add_vec(m, x).map)
       /\ MapCall("add_vec", NoKey, 0, x, add_vec(m, x))

\* m.upsert_vec(&x)
UpsertVec ==
  /\ Fresh /\ stmt \in Families
  /\ \E x \in ListsUpTo(VecPairs(stmt), MaxVecLen) :
       MapCall("upsert_vec", NoKey, 0, x, upsert_vec(m, x))

\* The effect of a call on the store acc with outcome r.
StoreCall(name, d, k, v, r) ==
  /\ acc' = r.acc
  /\ pre' = acc
  /\ op' = OpRec(name, d, k, NoKey, v, <<>>, r.ok)
  /\ UNCHANGED <<stmt, m, b0, b1, plx, rates, out>>

\* acc.put_balance_sheet(d, ty, val)
PutBalanceSheet ==
  /\ Fresh /\ stmt = "ACC"
  /\ \E d \in EnterDates, ty \in {"Cash", "Assets"}, val \in Vals :
       StoreCall("put_balance_sheet", d, ty, val,
                 put_balance_sheet(acc, d, ty, val))

\* acc.put_profit_loss(d, ty, val)
PutProfitLoss ==
  /\ Fresh /\ stmt = "ACC"
  /\ \E ty \in {"Salaries", "EBITDA"}, val \in Vals :
       StoreCall("put_profit_loss", EnterPeriod, ty, val,
                 put_profit_loss(acc, EnterPeriod, ty, val))

\* acc.put_cash_flow(d, ty, val)
PutCashFlow ==
  /\ Fresh /\ stmt = "ACC"
  /\ \E ty \in {"DonorContribution", "NetCashFlow"}, val \in Vals :
       StoreCall("put_cash_flow", EnterPeriod, ty, val,
                 put_cash_flow(acc, EnterPeriod, ty, val))

\* The caller goes on to its next call: the map or store the last call
\* returned is what the next call finds.
NextCall ==
  /\ ~Fresh /\ op.ok
  /\ op' = Constructed
  /\ pre' = IF stmt = "ACC" THEN acc ELSE m
  /\ UNCHANGED <<stmt, m, b0, b1, plx, rates, acc, out>>

NextEnter ==
  \/ Add \/ Upsert \/ AddVec \/ UpsertVec
  \/ PutBalanceSheet \/ PutProfitLoss \/ PutCashFlow
  \/ NextCall

SpecEnter == InitEnter /\ [][NextEnter]_vars

---------------------------------------------------------------------------
(* SpecPost: postings on a balance sheet.                                  *)
(* One call of debit, credit, transact or transact_series is made on a     *)
(* balance sheet of entered items; a debit may be followed by the credit   *)
(* of the same item and amount, and a posting by calc_elements.  pre holds *)
(* the map before the call, and keeps it through the follow-up.            *)

\* The items posted to: asset entries at two depths of the roll-up, a
\* contra asset, a liability, an equity item, and a calculated item.
PostKeys ==
  {"Cash", "RawMaterials", "AccumulatedDepreciation", "CurrentPayables",
   "CommonStock", "Assets"}

\* The keys of the balance sheets SpecPost starts from.
PostedKeys == {"Cash", "RawMaterials", "CommonStock"}

\* The postings of the lists given to transact_series.
Postings ==
  {<<"Cash", "CommonStock", MaxVal>>, <<"RawMaterials", "Cash", 1>>,
   <<"CurrentPayables", "Assets", 1>>}

InitPost ==
  /\ stmt = "BS"
  /\ m \in MapsOver(PostedKeys)
  /\ pre = m
  /\ op = Constructed
  /\ out = NoResult
  /\ NoCashFlowInputs
  /\ NoAccounts

\* The effect of a posting call on the map m with outcome r.
PostCall(name, k, k2, v, x, r) ==
  /\ m' = r.map
  /\ pre' = m
  /\ op' = OpRec(name, NoKey, k, k2, v, x, r.ok)
  /\ Idle

\* m.debit(k, v)
Debit ==
  /\ Fresh
  /\ \E k \in PostKeys, v \in Vals :
       PostCall("debit", k, NoKey, v, <<>>, debit(m, k, v))

\* m.credit(k, v): on a map as constructed, or after the debit of the same
\* item and amount.
Credit ==
  \/ /\ Fresh
     /\ \E k \in PostKeys, v \in Vals :
          PostCall("credit", k, NoKey, v, <<>>, credit(m, k, v))
  \/ /\ op.name = "debit" /\ op.ok
     /\ m' = credit(m, op.key, op.val).map
     /\ op' = [op EXCEPT !.name = "debit_credit",
                         !.ok = credit(m, op.key, op.val).ok]
     /\ UNCHANGED pre
     /\ Idle

\* m.transact((deb, crd, val))
Transact ==
  /\ Fresh
  /\ \E deb \in PostKeys, crd \in PostKeys, val \in Vals :
       PostCall("transact", deb, crd, val, <<>>, transact(m, deb, crd, val))

\* m.transact_series(trans)
TransactSeries ==
  /\ Fresh
  /\ \E trans \in ListsUpTo(Postings, MaxVecLen) :
       PostCall("transact_series", NoKey, NoKey, 0, trans,
                transact_series(m, trans))

\* m.calc_elements() after a posting.
CalcAfterPosting ==
  /\ op.name \in {"transact", "transact_series"} /\ op.ok
  /\ m' = calc_elements("BS", m)
  /\ op' = [op EXCEPT !.name = op.name \o "_calc"]
  /\ UNCHANGED pre
  /\ Idle

NextPost == Debit \/ Credit \/ Transact \/ TransactSeries \/ CalcAfterPosting

SpecPost == InitPost /\ [][NextPost]_vars

---------------------------------------------------------------------------
(* SpecRounding: a debit and the credit that undoes it, on amounts of any  *)
(* magnitude.  The balance sheet holds small amounts; the amount posted is *)
(* small or of the order of 2^53 units (2^36 currency units), where the    *)
(* sum with a small amount has to round.                                   *)

\* The amounts posted: below the exact range, or 2^53 units and 2^53 + 2
\* units with either sign.
PostedAmounts ==
  {<<0, x>> : x \in Vals} \cup {<<1, 0>>, <<-1, 0>>, <<1, 2>>, <<-1, -2>>}

\* The balance sheets SpecRounding starts from.
RoundingSheets ==
  {[k \in DOMAIN hm |-> <<0, hm[k]>>] :
     hm \in MapsOver({"Cash", "AccumulatedDepreciation", "CommonStock"})}

InitRounding ==
  /\ stmt = "BS"
  /\ m \in RoundingSheets
  /\ pre = m
  /\ op = Constructed
  /\ out = NoResult
  /\ NoCashFlowInputs
  /\ NoAccounts

\* m.debit(k, v)
DebitRounded ==
  /\ Fresh
  /\ \E k \in PostKeys, v \in PostedAmounts :
       PostCall("debit", k, NoKey, v, <<>>, debit_f64(m, k, v))

\* m.credit(k, v) after the debit of the same item and amount.
CreditRounded ==
  /\ op.name = "debit" /\ op.ok
  /\ m' = credit_f64(m, op.key, op.val).map
  /\ op' = [op EXCEPT !.name = "debit_credit",
                      !.ok = credit_f64(m, op.key, op.val).ok]
  /\ UNCHANGED pre
  /\ Idle

NextRounding == DebitRounded \/ CreditRounded

SpecRounding == InitRounding /\ [][NextRounding]_vars

---------------------------------------------------------------------------
(* SpecCashFlow: the derivation of a cash-flow statement.                  *)
(* calc_cash_flow is applied to an opening and a closing balance sheet, a  *)
(* profit-and-loss statement and three tax rates; calc_elements may then   *)
(* be run on the CfMap it returned.                                        *)

\* The items the opening and the closing balance sheet hold: a positive
\* and a negative contributor of ChangeLongTermAssets.
OpeningKeys == {"AccountReceivables"}

ClosingKeys == {"AccountReceivables", "AccumulatedDepreciation"}

\* The items the profit-and-loss statement holds: a contributor of
\* CashFlowInterests, and one that AdjustmentsSalesAssets adds and
\* AdjustmentsRetainedEarnings subtracts.
ProfitLossKeys == {"InterestExpense", "GainsLossesSales"}

\* The tax rates <<corp_tax, gp_tax, revenue_tax>>: a corporate tax of 0 or
\* 100 per cent, without tax on gross profit or on revenue.
TaxRates == {0, 1} \X {0} \X {0}

\* Two balance sheets over a contributor of ChangeCurrentAssets and one of
\* ChangeCurrentLiabilities, with a profit-and-loss statement that holds
\* the dividends.
ReceivableKeys == {"CurrentReceivables", "CurrentPayables"}

DividendKeys == {"Dividends"}

\* Every map whose keys are among keys, each with the value v.
MapsInto(keys, v) == UNION {[d -> {v}] : d \in SUBSET keys}

\* Derived profit-and-loss statements for the tax shield: interest and
\* earnings before tax of any amount, and possibly a gross profit, a
\* revenue and a tax depreciation.
TaxedStatements ==
  {f @@ g : f \in MapsOver({"InterestExpense", "EBT"}),
            g \in MapsInto({"GrossProfit", "Revenue", "TaxDepreciation"},
                           MaxVal)}

\* The three tax rates, each 0 or 100 per cent.
AllTaxRates == {0, 1} \X {0, 1} \X {0, 1}

\* Balance sheets with cash: an opening one of cash and common stock, a
\* closing one of cash, receivables and possibly MaxVal of common stock,
\* balanced or not.
FundedSheets ==
  {f @@ g : f \in MapsOver({"Cash", "CurrentReceivables"}),
            g \in MapsInto({"CommonStock"}, MaxVal)}

\* Profit-and-loss statements with any of the interest, the dividends and a
\* gain on sales, each of MaxVal.
FinancingStatements ==
  MapsInto({"InterestExpense", "Dividends", "GainsLossesSales"}, MaxVal)

\* The arguments of calc_cash_flow: a movement of long-term assets, a
\* movement of receivables and payables, a taxed statement between two
\* empty balance sheets, or a movement of cash.
InitCashFlow ==
  /\ stmt = "CF"
  /\ m = EmptyMap
  /\ pre = EmptyMap
  /\ op = Constructed
  /\ out = NoResult
  /\ \/ /\ b0 \in MapsOver(OpeningKeys)
        /\ b1 \in MapsOver(ClosingKeys)
        /\ plx \in MapsOver(ProfitLossKeys)
        /\ rates \in TaxRates
     \/ /\ b0 \in MapsOver(ReceivableKeys)
        /\ b1 \in MapsOver(ReceivableKeys)
        /\ plx \in MapsOver(DividendKeys)
        /\ rates = <<0, 0, 0>>
     \/ /\ b0 = EmptyMap
        /\ b1 = EmptyMap
        /\ plx \in TaxedStatements
        /\ rates \in AllTaxRates
     \/ /\ b0 \in MapsOver({"Cash", "CommonStock"})
        /\ b1 \in FundedSheets
        /\ plx \in FinancingStatements
        /\ rates = <<1, 0, 0>>
  /\ NoAccounts

\* cf = calc_cash_flow(&b0, &b1, &pl, corp_tax, gp_tax, revenue_tax)
CalcCashFlow ==
  /\ Fresh
  /\ m' = calc_cash_flow(b0, b1, plx, rates[1], rates[2], rates[3])
  /\ pre' = m
  /\ op' = OpRec("calc_cash_flow", NoKey, NoKey, NoKey, 0, <<>>, TRUE)
  /\ Idle

\* cf.calc_elements() on the map calc_cash_flow returned.
CalcCashFlowElements ==
  /\ op.name = "calc_cash_flow"
  /\ m' = calc_elements("CF", m)
  /\ pre' = m
  /\ op' = OpRec("calc_elements", NoKey, NoKey, NoKey, 0, <<>>, TRUE)
  /\ Idle

NextCashFlow == CalcCashFlow \/ CalcCashFlowElements

SpecCashFlow == InitCashFlow /\ [][NextCashFlow]_vars

---------------------------------------------------------------------------
(* SpecCommonSize: common_size on one statement map, built directly        *)
(* (HashMap::from), whose amounts are held as sign and magnitude so that   *)
(* a zero may be +0.0 or -0.0.                                             *)

\* The f64 amounts of the maps: either sign with every magnitude.
SignedAmounts == {[neg |-> s, mag |-> n] : s \in BOOLEAN, n \in 0..MaxVal}

InitCommonSize ==
  /\ stmt \in Families
  /\ m \in UNION {[d -> SignedAmounts] : d \in SUBSET DeriveKeys(stmt)}
  /\ pre = m
  /\ op = Constructed
  /\ out = NoResult
  /\ NoCashFlowInputs
  /\ NoAccounts

\* m.common_size(): the map is left alone and a new map is returned.
CommonSize ==
  /\ Fresh
  /\ LET r == common_size(stmt, m) IN
       /\ out' = IF r.ok THEN [kind |-> "map", val |-> r.map] ELSE NoResult
       /\ op' = OpRec("common_size", NoKey, NoKey, NoKey, 0, <<>>, r.ok)
  /\ pre' = m
  /\ UNCHANGED <<stmt, m, b0, b1, plx, rates, acc>>

NextCommonSize == CommonSize

SpecCommonSize == InitCommonSize /\ [][NextCommonSize]_vars

---------------------------------------------------------------------------
(* SpecAccounts: queries and whole-store operations on an Accounts store.  *)
(* Dates are day numbers; the store holds balance sheets at some of three  *)
(* dates and statements for some of the three periods between them, whose  *)
(* spans are 120 days, 121 days and 1 day.                                 *)

StoreDates == {0, PeriodSplitDays, PeriodSplitDays + 1}

StorePeriods == {p \in StoreDates \X StoreDates : p[1] < p[2]}

LongPeriod == <<0, PeriodSplitDays + 1>>

\* The statements of the stores: entered items, a stale calculated item and
\* an amount within the threshold.
OpeningSheet == ("Cash" :> MaxVal) @@ ("CurrentReceivables" :> 1)

ClosingSheet ==
  ("Cash" :> 1) @@ ("CurrentReceivables" :> MaxVal + 1) @@ ("Assets" :> MaxVal)

SheetAt(d) == IF d = PeriodSplitDays THEN ClosingSheet ELSE OpeningSheet

TradingStatement ==
  ("OperatingRevenue" :> MaxVal + 2) @@ ("InterestExpense" :> MaxVal)
    @@ ("TaxesCurrent" :> 1)

LossStatement ==
  ("OperatingRevenue" :> 1) @@ ("Salaries" :> MaxVal)
    @@ ("TaxDepreciation" :> 1) @@ ("EAT" :> MaxVal)

StoredCashFlows ==
  { ("DonorContribution" :> MaxVal) @@ ("NetCashFlow" :> 1),
    ("ChangeDebt" :> 1) @@ ("CashFlowTaxShield" :> 0) }

\* The others maps: the three tax rates, or the corporate rate alone.
StoredRates ==
  { ("CorporateTaxRate" :> 1) @@ ("GrossProfitTaxRate" :> 0)
      @@ ("RevenueTaxRate" :> 0),
    ("CorporateTaxRate" :> 0) @@ ("GrossProfitTaxRate" :> 1)
      @@ ("RevenueTaxRate" :> 1),
    ("CorporateTaxRate" :> 1) }

\* Stores that differ in which dates and periods hold a statement.
PeriodStores ==
  {Accounts({}, bs, pl, cf, oth) :
     bs \in {[d \in ds |-> SheetAt(d)] : ds \in SUBSET StoreDates},
     pl \in UNION {[ps -> {s}] : ps \in SUBSET StorePeriods,
                                  s \in {TradingStatement, LossStatement}},
     cf \in UNION {[ps -> StoredCashFlows] : ps \in SUBSET {LongPeriod}},
     oth \in UNION {[ps -> {r}] : ps \in {{}, {LongPeriod}, StorePeriods},
                                   r \in StoredRates}}

\* The keys of the statement the second kind of store holds: an entered
\* item, a calculated item over it and another entered item.
StoredKeys(s) ==
  CASE s = "BS" -> {"RawMaterials", "Inventories", "CommonStock"}
    [] s = "PL" -> {"OperatingRevenue", "Revenue", "TaxesCurrent"}
    [] s = "CF" -> {"ChangeCurrentAssets", "CashFlowOperations", "ChangeDebt"}

\* Stores that hold one statement with any amounts.
StatementStores ==
  {Accounts({}, (0 :> hm), EmptyMap, EmptyMap, EmptyMap) :
     hm \in MapsOver(StoredKeys("BS"))}
  \cup
  {Accounts({}, EmptyMap, (LongPeriod :> hm), EmptyMap, EmptyMap) :
     hm \in MapsOver(StoredKeys("PL"))}
  \cup
  {Accounts({}, EmptyMap, EmptyMap, (LongPeriod :> hm), EmptyMap) :
     hm \in MapsOver(StoredKeys("CF"))}

InitAccounts ==
  /\ stmt = "ACC"
  /\ m = EmptyMap
  /\ acc \in PeriodStores \cup StatementStores
  /\ pre = acc
  /\ op = Constructed
  /\ out = NoResult
  /\ NoCashFlowInputs

\* The effect of a call that reads the store and returns r.
Query(name, d, r) ==
  /\ out' = r
  /\ pre' = acc
  /\ op' = OpRec(name, d, NoKey, NoKey, 0, <<>>, TRUE)
  /\ UNCHANGED <<stmt, m, b0, b1, plx, rates, acc>>

\* acc.get_account(d0, d1)
GetAccount ==
  /\ Fresh
  /\ \E d0 \in StoreDates, d1 \in StoreDates :
       Query("get_account", <<d0, d1>>,
             [kind |-> "Option<FinancialReport>",
              val |-> get_account(acc, d0, d1)])

\* acc.split_periods()
SplitPeriods ==
  /\ Fresh
  /\ Query("split_periods", NoKey,
           [kind |-> "(annual, quarterly)", val |-> split_periods(acc)])

\* acc.remove_calc_clean()
AccountsRemoveCalcClean ==
  /\ Fresh
  /\ StoreCall("remove_calc_clean", NoKey, NoKey, 0,
               StoreReturned(Accounts_remove_calc_clean(acc)))

\* acc.calc_cash_flow()
AccountsCalcCashFlow ==
  /\ Fresh
  /\ StoreCall("calc_cash_flow", NoKey, NoKey, 0,
               Accounts_calc_cash_flow(acc))

\* acc.calc_tax()
CalcTax ==
  /\ Fresh
  /\ StoreCall("calc_tax", NoKey, NoKey, 0, calc_tax(acc))

\* acc.calc_elements(), on a store as constructed or as calc_cash_flow or
\* calc_tax left it; op.key names the call that went before.
AccountsCalcElements ==
  /\ \/ Fresh
     \/ op.name \in {"calc_cash_flow", "calc_tax"} /\ op.ok
  /\ StoreCall("calc_elements", NoKey,
               IF Fresh THEN NoKey ELSE op.name, 0,
               StoreReturned(Accounts_calc_elements(acc)))

\* acc.get_account(d0, d1).unwrap().calc_elements(): the report of a
\* period of profit_loss is taken from the store and derived.
ReportCalcElements ==
  /\ Fresh
  /\ \E p \in DOMAIN acc.profit_loss :
       LET r == FinancialReport_calc_elements(get_account(acc, p[1], p[2])[1])
       IN  /\ out' = IF r.ok THEN [kind |-> "FinancialReport", val |-> r.report]
                     ELSE NoResult
           /\ op' = OpRec("FinancialReport::calc_elements", p, NoKey, NoKey, 0,
                          <<>>, r.ok)
  /\ pre' = acc
  /\ UNCHANGED <<stmt, m, b0, b1, plx, rates, acc>>

NextAccounts ==
  \/ GetAccount \/ SplitPeriods \/ ReportCalcElements
  \/ AccountsRemoveCalcClean \/ AccountsCalcElements
  \/ AccountsCalcCashFlow \/ CalcTax

SpecAccounts == InitAccounts /\ [][NextAccounts]_vars

---------------------------------------------------------------------------
(* SpecLifecycle: an Accounts store from its construction on: the dates    *)
(* are set, tax rates are set, values are put and the statements are       *)
(* derived, two calls in a row.                                            *)

\* A period whose begin is after its end.
ReversedPeriod == <<PeriodSplitDays + 1, 0>>

\* A date between the dates of the statements.
EarlierDate == 60

EditedCashFlow == ("DonorContribution" :> MaxVal) @@ ("NetCashFlow" :> 1)

\* The stores as constructed: a date set that is empty or holds a date,
\* balance sheets at some dates, a profit and loss for some periods, a cash
\* flow for the long period or none, and no tax rates, the rates of the
\* long period, or the corporate rate alone for every period.
LifecycleStores ==
  {Accounts(ds, bs, pl, cf, oth) :
     ds \in {{}, {EarlierDate}},
     bs \in {[d \in at |-> SheetAt(d)] : at \in SUBSET StoreDates},
     pl \in {[p \in ps |-> TradingStatement] :
               ps \in SUBSET (StorePeriods \cup {ReversedPeriod})},
     cf \in {[p \in ps |-> EditedCashFlow] : ps \in SUBSET {LongPeriod}},
     oth \in {EmptyMap, (LongPeriod :> RatesOf(1, 0, 0)),
              [p \in StorePeriods |-> ("CorporateTaxRate" :> 1)]}}

InitLifecycle ==
  /\ stmt = "ACC"
  /\ m = EmptyMap
  /\ acc \in LifecycleStores
  /\ pre = acc
  /\ op = Constructed
  /\ out = NoResult
  /\ NoCashFlowInputs

\* The call is the first on the store, or follows a first call named in
\* names that returned.
FirstOrAfter(names) ==
  \/ Fresh
  \/ op.ok /\ op.key2 = NoKey /\ op.name \in names

\* The effect of a call on the store acc with outcome r; op.key2 names the
\* call that went before.
Step(name, d, k, v, r) ==
  /\ acc' = r.acc
  /\ pre' = acc
  /\ op' = OpRec(name, d, k, IF Fresh THEN NoKey ELSE op.name, v, <<>>, r.ok)
  /\ UNCHANGED <<stmt, m, b0, b1, plx, rates, out>>

PutNames == {"put_balance_sheet", "put_profit_loss", "put_cash_flow"}

\* acc.set_dates_from_profit_loss()
SetDates ==
  /\ Fresh
  /\ Step("set_dates_from_profit_loss", NoKey, NoKey, 0,
          set_dates_from_profit_loss(acc))

\* acc.set_tax_rates(corp_tax, gross_profit_tax, revenue_tax)
SetTaxRates ==
  /\ FirstOrAfter({"set_dates_from_profit_loss"})
  /\ \E t \in {<<1, 0, 0>>, <<0, 1, 1>>} :
       Step("set_tax_rates", NoKey, NoKey, 0,
            StoreReturned(set_tax_rates(acc, t[1], t[2], t[3])))

\* acc.put_balance_sheet(d, ty, val)
LifecyclePutBalanceSheet ==
  /\ FirstOrAfter({"set_dates_from_profit_loss", "calc_elements"})
  /\ \E d \in {0, PeriodSplitDays}, ty \in {"Cash", "Assets"} :
       Step("put_balance_sheet", d, ty, MaxVal,
            put_balance_sheet(acc, d, ty, MaxVal))

\* acc.put_profit_loss(d, ty, val)
LifecyclePutProfitLoss ==
  /\ FirstOrAfter({"set_dates_from_profit_loss", "calc_elements"})
  /\ \E d \in {LongPeriod, <<0, PeriodSplitDays>>},
        ty \in {"Salaries", "EBITDA"} :
       Step("put_profit_loss", d, ty, MaxVal,
            put_profit_loss(acc, d, ty, MaxVal))

\* acc.put_cash_flow(d, ty, val)
LifecyclePutCashFlow ==
  /\ FirstOrAfter({"set_dates_from_profit_loss", "calc_elements",
                   "calc_cash_flow"})
  /\ \E d \in {LongPeriod, <<0, PeriodSplitDays>>},
        ty \in {"OtherCashFlowOperations", "NetCashFlow"} :
       Step("put_cash_flow", d, ty, MaxVal,
            put_cash_flow(acc, d, ty, MaxVal))

\* acc.calc_elements()
LifecycleCalcElements ==
  /\ FirstOrAfter({"set_dates_from_profit_loss"} \cup PutNames)
  /\ Step("calc_elements", NoKey, NoKey, 0,
          StoreReturned(Accounts_calc_elements(acc)))

\* acc.remove_calc_clean()
LifecycleRemoveCalcClean ==
  /\ FirstOrAfter({"set_dates_from_profit_loss"})
  /\ Step("remove_calc_clean", NoKey, NoKey, 0,
          StoreReturned(Accounts_remove_calc_clean(acc)))

\* acc.calc_cash_flow()
LifecycleCalcCashFlow ==
  /\ FirstOrAfter({"set_dates_from_profit_loss", "set_tax_rates",
                   "put_cash_flow"})
  /\ Step("calc_cash_flow", NoKey, NoKey, 0, Accounts_calc_cash_flow(acc))

\* acc.calc_tax()
LifecycleCalcTax ==
  /\ FirstOrAfter({"set_dates_from_profit_loss", "set_tax_rates"})
  /\ Step("calc_tax", NoKey, NoKey, 0, calc_tax(acc))

NextLifecycle ==
  \/ SetDates \/ SetTaxRates
  \/ LifecyclePutBalanceSheet \/ LifecyclePutProfitLoss
  \/ LifecyclePutCashFlow
  \/ LifecycleCalcElements \/ LifecycleRemoveCalcClean
  \/ LifecycleCalcCashFlow \/ LifecycleCalcTax

SpecLifecycle == InitLifecycle /\ [][NextLifecycle]_vars

---------------------------------------------------------------------------
(* SpecReport: FinancialReport::from_statements on dated statements.       *)
(* Each of the five arguments is None or a statement with one of two dates *)
(* or periods, so that every combination of agreeing, differing and absent *)
(* statements is called.                                                   *)

\* The structs BalanceSheet and ProfitLoss, CashFlow, FinOthers.
BalanceSheet(date, items) == [date |-> date, items |-> items]

PeriodStatement(date_beg, date_end, items) ==
  [date_beg |-> date_beg, date_end |-> date_end, items |-> items]

\* bs_dt: the date and items of a supplied balance sheet, else the date
\* given and None.
bs_dt(dt, bs) ==
  IF bs # None THEN <<bs[1].date, Some(bs[1].items)>> ELSE <<dt, None>>

\* cf_dt and fo_dt: the dates and items of a supplied period statement, else
\* the dates given and None.
cf_dt(dt0, dt1, cf) ==
  IF cf # None THEN <<cf[1].date_beg, cf[1].date_end, Some(cf[1].items)>>
  ELSE <<dt0, dt1, None>>

\* A variant of from_statements that does not compare the dates of the
\* others statement.
from_statements_AnyOthersDates(bs0, bs1, pl_opt, cf, ft) ==
  IF pl_opt = None THEN ReportPanicked(None)
  ELSE LET pl == pl_opt[1]
           date_beg == pl.date_beg
           date_end == pl.date_end
           b_beg == bs_dt(date_beg, bs0)
           b_end == bs_dt(date_end, bs1)
           c == cf_dt(date_beg, date_end, cf)
           f == cf_dt(date_beg, date_end, ft)
       IN  IF /\ date_beg = b_beg[1] /\ date_beg = c[1]
              /\ date_end = b_end[1] /\ date_end = c[2]
           THEN ReportReturned(Some(FinancialReport(date_beg, date_end,
                  b_beg[2], b_end[2], Some(pl.items), c[3], f[3])))
           ELSE ReportReturned(None)

\* FinancialReport::from_statements: panics when the profit and loss is
\* None; Some(report) when the dates of all supplied statements are those
\* of the profit and loss, else None.
from_statements(bs0, bs1, pl_opt, cf, ft) ==
  IF pl_opt = None THEN ReportPanicked(None)
  ELSE LET pl == pl_opt[1]
           date_beg == pl.date_beg
           date_end == pl.date_end
           b_beg == bs_dt(date_beg, bs0)
           b_end == bs_dt(date_end, bs1)
           c == cf_dt(date_beg, date_end, cf)
           f == cf_dt(date_beg, date_end, ft)
       IN  IF /\ date_beg = b_beg[1] /\ date_beg = c[1] /\ date_beg = f[1]
              /\ date_end = b_end[1] /\ date_end = c[2] /\ date_end = f[2]
           THEN ReportReturned(Some(FinancialReport(date_beg, date_end,
                  b_beg[2], b_end[2], Some(pl.items), c[3], f[3])))
           ELSE ReportReturned(None)

\* The statements supplied: balance sheets dated at the begin or the end of
\* the short period, period statements for the short period, for the long
\* one, which ends a day later, or for the day after the short one, which
\* begins later.
ReportPeriods ==
  {<<0, PeriodSplitDays>>, LongPeriod, <<PeriodSplitDays, PeriodSplitDays + 1>>}

SheetsSupplied ==
  {None} \cup {Some(BalanceSheet(d, SheetAt(d))) : d \in {0, PeriodSplitDays}}

PeriodsSupplied(items) ==
  {None} \cup {Some(PeriodStatement(p[1], p[2], items)) : p \in ReportPeriods}

InitReport ==
  /\ stmt = "REPORT"
  /\ m = EmptyMap
  /\ acc = Accounts({}, EmptyMap, EmptyMap, EmptyMap, EmptyMap)
  /\ pre = acc
  /\ op = Constructed
  /\ out = NoResult
  /\ NoCashFlowInputs

\* One call of from_statements; op.vec holds the five arguments.
FromStatements ==
  /\ Fresh
  /\ \E bs0 \in SheetsSupplied, bs1 \in SheetsSupplied,
        pl \in PeriodsSupplied(TradingStatement),
        cf \in PeriodsSupplied(EditedCashFlow),
        ft \in PeriodsSupplied(RatesOf(1, 0, 0)) :
       LET r == from_statements(bs0, bs1, pl, cf, ft)
       IN  /\ out' = IF r.ok
                     THEN [kind |-> "Option<FinancialReport>", val |-> r.report]
                     ELSE NoResult
           /\ op' = OpRec("from_statements", NoKey, NoKey, NoKey, 0,
                          <<bs0, bs1, pl, cf, ft>>, r.ok)
  /\ pre' = acc
  /\ UNCHANGED <<stmt, m, b0, b1, plx, rates, acc>>

NextReport == FromStatements

SpecReport == InitReport /\ [][NextReport]_vars

---------------------------------------------------------------------------
(* The vocabulary of the claims, stated independently of the operators     *)
(* that model the code.                                                    *)

\* The value of an item in a map, an absent key counting as 0.
ValueIn(hm, k) == IF k \in DOMAIN hm THEN hm[k] ELSE 0

RECURSIVE TotalOf(_, _)
\* The sum of the values of the items of a list.
TotalOf(hm, list) ==
  IF list = <<>> THEN 0 ELSE ValueIn(hm, Head(list)) + TotalOf(hm, Tail(list))

\* The positive contributors' sum minus the negative contributors' sum.
Contribution(hm, rule) == TotalOf(hm, rule.pos) - TotalOf(hm, rule.neg)

\* Magnitude above the materiality threshold of 1e-5, in model units.
AboveThreshold(p) == p >= 2 \/ p <= -2

Rules(s) == {RollUp(s)[i] : i \in 1..Len(RollUp(s))}

AfterCalc == op.name = "calc_elements" /\ op.ok

---------------------------------------------------------------------------
(* C1 *)

\* C1 as stated: after calc_elements() the value of every calculated item
\* equals the sum of its positive contributors minus the sum of its negative
\* contributors in the resulting map, an absent key counting as 0.
C1_RollUpExact ==
  AfterCalc =>
    \A r \in Rules(stmt) : ValueIn(m, r.k) = Contribution(m, r)

\* C1 amended: after calc_elements() the value of every calculated item
\* equals its signed contributor sum in the resulting map whenever that sum
\* exceeds the materiality threshold in magnitude, and is 0 (the key is
\* absent) when the sum is within the threshold.
C1_RollUpMaterial ==
  AfterCalc =>
    \A r \in Rules(stmt) :
      ValueIn(m, r.k) =
        IF AboveThreshold(Contribution(m, r)) THEN Contribution(m, r) ELSE 0

\* C1 witness: a balance sheet was derived from a map with a stale Assets
\* value; Assets now holds the material sum rolled up through Inventories
\* and CurrentAssets, net of a negative contributor.
C1_Witness ==
  /\ AfterCalc
  /\ stmt = "BS"
  /\ "Assets" \in DOMAIN pre
  /\ ValueIn(pre, "Assets") # ValueIn(m, "Assets")
  /\ ValueIn(m, "Inventories") = 2
  /\ ValueIn(m, "NetPlantPropertyEquipment") = -2
  /\ ValueIn(m, "BalanceSheetCheck") # 0

---------------------------------------------------------------------------
(* C3 *)

\* C3: calc_elements() applied to an already-derived map changes nothing:
\* the map has the same keys and the same values.
C3_Idempotent == AfterCalc => calc_elements(stmt, m) = m

\* C3 witness: a derivation changed a map that held stale calculated values
\* and left calculated keys in it.
C3_Witness ==
  /\ AfterCalc
  /\ pre # m
  /\ \E k \in DOMAIN pre : is_calc(k) /\ ValueIn(pre, k) # ValueIn(m, k)
  /\ \E k \in DOMAIN m : is_calc(k) /\ k \notin DOMAIN pre

---------------------------------------------------------------------------
(* C4 *)

\* C4: after calc_elements() every calculated key whose derived magnitude
\* does not exceed the materiality threshold is absent, also when the map
\* held a stale value for it, and every calculated key present has a
\* magnitude above the threshold.
C4_Materiality ==
  AfterCalc =>
    \A r \in Rules(stmt) :
      /\ ~AboveThreshold(Contribution(m, r)) => r.k \notin DOMAIN m
      /\ r.k \in DOMAIN m => AboveThreshold(m[r.k])

\* C4 witness: the map held a stale material Inventories; its derived value
\* is one unit, within the threshold, and the key is gone.
C4_Witness ==
  /\ AfterCalc
  /\ stmt = "BS"
  /\ "Inventories" \in DOMAIN pre
  /\ AboveThreshold(pre["Inventories"])
  /\ ValueIn(m, "RawMaterials") = 1
  /\ "Inventories" \notin DOMAIN m

---------------------------------------------------------------------------
(* C2 *)

\* An item is a rule target of the roll-up table of its statement.
IsRuleTarget(k) == \E s \in Families : \E r \in Rules(s) : r.k = k

MapCalls == {"add", "upsert", "add_vec", "upsert_vec"}

PutCalls == {"put_balance_sheet", "put_profit_loss", "put_cash_flow"}

\* The items the last call names.
ItemsNamed ==
  IF op.name \in {"add_vec", "upsert_vec"}
  THEN {op.vec[i][1] : i \in 1..Len(op.vec)}
  ELSE {op.key}

\* Whether an item is present in a map, and with which value.
Entry(hm, k) == IF k \in DOMAIN hm THEN <<"present", hm[k]>> ELSE <<"absent">>

\* The statement maps of a store, by field and date or period.
StoredMap(a, field, d) == a[field][d]

StoreFields == {"balance_sheet", "profit_loss", "cash_flow"}

\* The last call wrote no value for item k.
NotWritten(k) ==
  IF op.name \in PutCalls
  THEN \A f \in StoreFields :
         /\ DOMAIN acc[f] = DOMAIN pre[f]
         /\ \A d \in DOMAIN acc[f] :
              Entry(StoredMap(acc, f, d), k) = Entry(StoredMap(pre, f, d), k)
  ELSE Entry(m, k) = Entry(pre, k)

\* A map, or every map of a store, holds no calculated key.
NoTargetIn(hm) == \A k \in DOMAIN hm : ~IsRuleTarget(k)

NoTargetStored(a) ==
  \A f \in StoreFields : \A d \in DOMAIN a[f] : NoTargetIn(StoredMap(a, f, d))

NoTargetBefore == IF op.name \in PutCalls THEN NoTargetStored(pre) ELSE NoTargetIn(pre)

NoTargetAfter == IF op.name \in PutCalls THEN NoTargetStored(acc) ELSE NoTargetIn(m)

\* The field of the store a put_* call addresses.
PutField ==
  CASE op.name = "put_balance_sheet" -> "balance_sheet"
    [] op.name = "put_profit_loss" -> "profit_loss"
    [] op.name = "put_cash_flow" -> "cash_flow"

\* C2 as stated: add, upsert, add_vec, upsert_vec and put_* fail fatally on
\* a rule target and write no value for it; on items that are not rule
\* targets the same calls succeed; hence successful calls on a map
\* without calculated keys leave it without calculated keys.
C2_GuardAsStated ==
  op.name \in MapCalls \cup PutCalls =>
    /\ op.ok <=> \A k \in ItemsNamed : ~IsRuleTarget(k)
    /\ \A k \in ItemsNamed : IsRuleTarget(k) => NotWritten(k)
    /\ op.ok /\ NoTargetBefore => NoTargetAfter

\* C2 amended: as stated, but put_* on an item that is not a rule target
\* succeeds only when a map is stored at the date or period it addresses,
\* and fails fatally when none is.
C2_Guard ==
  op.name \in MapCalls \cup PutCalls =>
    /\ op.ok <=>
         /\ \A k \in ItemsNamed : ~IsRuleTarget(k)
         /\ op.name \in PutCalls => op.at \in DOMAIN pre[PutField]
    /\ \A k \in ItemsNamed : IsRuleTarget(k) => NotWritten(k)
    /\ op.ok /\ NoTargetBefore => NoTargetAfter

\* C2 witness: upsert_vec wrote an entered item and then failed on the
\* calculated item that followed it in the list, whose stale value stands.
C2_Witness ==
  /\ op.name = "upsert_vec"
  /\ ~op.ok
  /\ m # pre
  /\ \E k \in ItemsNamed : IsRuleTarget(k) /\ k \in DOMAIN m

---------------------------------------------------------------------------
(* C5 *)

\* The keys other than k have the same entries in two maps.
SameElsewhere(hm1, hm2, k) ==
  \A x \in (DOMAIN hm1 \cup DOMAIN hm2) \ {k} : Entry(hm1, x) = Entry(hm2, x)

\* The value of an item of a map of SpecRounding.
AmountIn(hm, k) == IF k \in DOMAIN hm THEN hm[k] ELSE <<0, 0>>

\* The amount debit(k, v) adds to the value of k.
SignedAmount(k, v) ==
  IF DEBIT_TYPE[k] \in {"AssetEntry", "LiabilityContra", "EquityContra"}
  THEN v ELSE <<-v[1], -v[2]>>

\* The sum of the amounts x and d is a number an f64 holds exactly: a whole
\* number of units of magnitude below 2^53, or an even one of magnitude
\* from 2^53 up to 2^54.
SumIsExact(x, d) ==
  LET hi == x[1] + d[1]
      lo == x[2] + d[2]
  IN  \/ hi = 0
      \/ hi \in {-1, 1} /\ (hi * lo < 0 \/ lo % 2 = 0)

\* C5 as stated: for an entered balance-sheet item k and every amount v,
\* debit(k, v) succeeds, and followed by credit(k, v) it returns value(k) to
\* what it was before the two calls and changes no other key.
C5_RoundTrip ==
  /\ op.name = "debit" /\ ~IsRuleTarget(op.key) => op.ok
  /\ op.name = "debit_credit" =>
       /\ op.ok
       /\ AmountIn(m, op.key) = AmountIn(pre, op.key)
       /\ SameElsewhere(m, pre, op.key)

\* C5 amended: debit(k, v) succeeds and, followed by credit(k, v), changes
\* no other key; value(k) is back at what it was whenever the sum that
\* debit forms is exact, and otherwise differs from it by at most the
\* rounding of that sum, one unit here.
C5_RoundTripWhenExact ==
  /\ op.name = "debit" /\ ~IsRuleTarget(op.key) => op.ok
  /\ op.name = "debit_credit" =>
       /\ op.ok
       /\ SameElsewhere(m, pre, op.key)
       /\ SumIsExact(AmountIn(pre, op.key), SignedAmount(op.key, op.val)) =>
            AmountIn(m, op.key) = AmountIn(pre, op.key)
       /\ AmountIn(m, op.key)[1] = 0
       /\ AmountIn(m, op.key)[2] - AmountIn(pre, op.key)[2] \in {-1, 0, 1}

\* C5 witness: one unit of cash was debited by 2^53 units; the sum lies
\* midway between two f64 values and was rounded to 2^53, so that the
\* credit left no cash, while the common stock kept its material value.
C5_Witness ==
  /\ op.name = "debit_credit"
  /\ op.key = "Cash"
  /\ op.val = <<1, 0>>
  /\ AmountIn(pre, "Cash") = <<0, 1>>
  /\ AmountIn(m, "Cash") = <<0, 0>>
  /\ AmountIn(pre, "CommonStock") = <<0, MaxVal>>
  /\ AmountIn(m, "CommonStock") = <<0, MaxVal>>

---------------------------------------------------------------------------
(* C7 *)

\* The sign debit gives an amount under the polarity of an item.
DebitSign(k) ==
  CASE DEBIT_TYPE[k] \in {"AssetEntry", "LiabilityContra", "EquityContra"} -> 1
    [] DEBIT_TYPE[k] \in {"AssetContra", "LiabilityEntry", "EquityEntry"} -> -1

\* C7: debit(k, v) adds +v to the value of k under the polarities
\* AssetEntry, LiabilityContra and EquityContra and -v under AssetContra,
\* LiabilityEntry and EquityEntry, and changes no other key; credit(k, v)
\* has the effect of debit(k, -v).
C7_SignRule ==
  /\ op.name = "debit" /\ op.ok =>
       /\ ValueIn(m, op.key) = ValueIn(pre, op.key) + DebitSign(op.key) * op.val
       /\ SameElsewhere(m, pre, op.key)
  /\ op.name = "credit" /\ op.ok =>
       /\ ValueIn(m, op.key) = ValueIn(pre, op.key) - DebitSign(op.key) * op.val
       /\ SameElsewhere(m, pre, op.key)
  /\ op.name = "credit" =>
       /\ op.ok = debit(pre, op.key, -op.val).ok
       /\ m = debit(pre, op.key, -op.val).map

\* C7 witness: an equity item was debited by a material amount and its
\* value went down by it.
C7_Witness ==
  /\ op.name = "debit"
  /\ op.ok
  /\ op.key = "CommonStock"
  /\ DEBIT_TYPE[op.key] = "EquityEntry"
  /\ op.val = MaxVal
  /\ ValueIn(pre, op.key) = 1
  /\ ValueIn(m, op.key) = 1 - MaxVal

---------------------------------------------------------------------------
(* C8 *)

\* The targets of the balance-sheet rules, and the rule of a target.
IsBsTarget(k) == \E r \in Rules("BS") : r.k = k

BsRuleOf(k) == CHOOSE r \in Rules("BS") : r.k = k

ListItems(list) == {list[i] : i \in 1..Len(list)}

RECURSIVE ReachedFrom(_, _)
\* The entered items under item k of the roll-up tree, each with the number
\* of negative-contributor edges on its path, k being n such edges down.
ReachedFrom(k, n) ==
  IF ~IsBsTarget(k)
  THEN {<<k, n>>}
  ELSE UNION ({ReachedFrom(x, n) : x \in ListItems(BsRuleOf(k).pos)}
                \cup {ReachedFrom(x, n + 1) : x \in ListItems(BsRuleOf(k).neg)})

\* The roots of the resolver with their Entry and Contra polarities.
PolarityRoots ==
  {<<"Assets", "AssetEntry", "AssetContra">>,
   <<"Liabilities", "LiabilityEntry", "LiabilityContra">>,
   <<"Equity", "EquityEntry", "EquityContra">>}

\* The coverage of the polarity map: its domain, the polarity of the items
\* by the sign of their path, and the three accumulated items.
ResolvedByPath ==
  /\ DOMAIN DEBIT_TYPE = {k \in BsType : ~IsBsTarget(k)}
  /\ {"Inventories", "NetPlantPropertyEquipment", "LongTermLiabilities",
      "Equity"} \cap DOMAIN DEBIT_TYPE = {}
  /\ \A root \in PolarityRoots : \A p \in ReachedFrom(root[1], 0) :
       /\ p[1] \in DOMAIN DEBIT_TYPE
       /\ p[2] = 0 => DEBIT_TYPE[p[1]] = root[2]
       /\ p[2] % 2 = 1 => DEBIT_TYPE[p[1]] = root[3]
  /\ \A k \in {"AccumulatedDepreciation", "AccumulatedAmortizationLease",
                "AccumulatedAmortization"} :
       /\ \E p \in ReachedFrom("Assets", 0) : p[1] = k /\ p[2] % 2 = 1
       /\ DEBIT_TYPE[k] = "AssetContra"

\* C8: the domain of the resolver's map is exactly the entered balance-sheet
\* items; an item reached from Assets, Liabilities or Equity through
\* positive-contributor edges only has that root's Entry polarity, one
\* reached through an odd number of negative-contributor edges has its
\* Contra polarity; the three accumulated items are contra assets.  The
\* postings on a balance sheet succeed on exactly the items of that domain.
C8_ResolverCoverage ==
  /\ stmt = "BS" => ResolvedByPath
  /\ op.name \in {"debit", "credit"} =>
       (op.ok <=> op.key \in BsType /\ ~IsBsTarget(op.key))

\* C8 witness: a posting resolved a liability reached through positive
\* edges and a contra asset.
C8_Witness ==
  /\ op.name = "transact"
  /\ op.ok
  /\ op.key = "CurrentPayables"
  /\ <<"CurrentPayables", 0>> \in ReachedFrom("Liabilities", 0)
  /\ op.key2 = "AccumulatedDepreciation"
  /\ ValueIn(m, op.key) = ValueIn(pre, op.key) - MaxVal
  /\ ValueIn(m, op.key2) = ValueIn(pre, op.key2) + MaxVal
  /\ op.val = MaxVal

---------------------------------------------------------------------------
(* C9 *)

\* The items a posting call names.
ItemsPosted == IF op.name = "transact" THEN {op.key, op.key2} ELSE {op.key}

\* C9: debit, credit and transact fail fatally when one of their items is
\* a calculated balance-sheet key, and write no value for that key.
C9_CalculatedKey ==
  op.name \in {"debit", "credit", "transact"} =>
    \A k \in ItemsPosted :
      IsBsTarget(k) => ~op.ok /\ Entry(m, k) = Entry(pre, k)

\* C9 witness: a posting debited an entered item and then failed on the
\* calculated item it was to credit.
C9_Witness ==
  /\ op.name = "transact"
  /\ ~op.ok
  /\ ~IsBsTarget(op.key)
  /\ IsBsTarget(op.key2)
  /\ op.val = MaxVal
  /\ ValueIn(m, op.key) # ValueIn(pre, op.key)
  /\ op.key2 \notin DOMAIN m

---------------------------------------------------------------------------
(* C6 *)

\* The BalanceSheetCheck value of a derived map, and of the derivation of a
\* map.
CheckValue(hm) == ValueIn(hm, "BalanceSheetCheck")

CheckValueDerived(hm) == CheckValue(calc_elements("BS", hm))

\* Every calculated item of a derived map holds its signed contributor
\* sum: no sum was left out for being within the materiality threshold.
NothingPruned(hm) ==
  \A r \in Rules("BS") : ValueIn(hm, r.k) = Contribution(hm, r)

PostedAndDerived == op.name \in {"transact_calc", "transact_series_calc"}

\* Debited alone into an empty map by a material amount, every entered item
\* raises the derived BalanceSheetCheck by that amount, and credited lowers
\* it by that amount.
EveryItemPostsToCheck ==
  \A k \in BsType : ~IsBsTarget(k) =>
    /\ CheckValueDerived(debit(EmptyMap, k, MaxVal).map) = MaxVal
    /\ CheckValueDerived(credit(EmptyMap, k, MaxVal).map) = -MaxVal

\* C6 as stated: transact on entered items followed by calc_elements()
\* leaves BalanceSheetCheck equal to what calc_elements() gives without the
\* posting, and postings applied to a balanced map yield a balanced map.
C6_BalancedAsStated ==
  PostedAndDerived =>
    /\ CheckValue(m) = CheckValueDerived(pre)
    /\ CheckValueDerived(pre) = 0 => CheckValue(m) = 0

\* C6 amended: transact on entered items succeeds; followed by
\* calc_elements() it leaves BalanceSheetCheck equal to what calc_elements()
\* gives without the posting whenever neither derivation left a non-zero
\* roll-up sum out for being within the materiality threshold, and under
\* that condition postings applied to a balanced map yield a balanced map.
C6_Balanced ==
  /\ op.name = "transact" /\ ~IsBsTarget(op.key) /\ ~IsBsTarget(op.key2)
       => op.ok
  /\ EveryItemPostsToCheck
  /\ PostedAndDerived
       /\ NothingPruned(m) /\ NothingPruned(calc_elements("BS", pre)) =>
         /\ CheckValue(m) = CheckValueDerived(pre)
         /\ CheckValueDerived(pre) = 0 => CheckValue(m) = 0

\* C6 witness: a balanced map of material amounts took a material posting
\* from Cash to RawMaterials; the derived totals are material and the map
\* is still balanced.
C6_Witness ==
  /\ op.name = "transact_calc"
  /\ op.key = "RawMaterials"
  /\ op.key2 = "Cash"
  /\ op.val = MaxVal
  /\ CheckValueDerived(pre) = 0
  /\ NothingPruned(calc_elements("BS", pre))
  /\ NothingPruned(m)
  /\ ValueIn(m, "Inventories") = MaxVal
  /\ ValueIn(m, "Assets") = MaxVal
  /\ ValueIn(m, "Equity") = MaxVal
  /\ "BalanceSheetCheck" \notin DOMAIN m

---------------------------------------------------------------------------
(* C10 *)

\* The entry a derived amount leaves: the amount when its magnitude is
\* above the materiality threshold, none otherwise.
EntryOf(d) == IF AboveThreshold(d) THEN <<"present", d>> ELSE <<"absent">>

RulesOf(table) == {table[i] : i \in 1..Len(table)}

\* C10: in the CfMap calc_cash_flow returns, every target of the table
\* derived from the balance sheets holds its signed contributor sum on the
\* closing balance sheet minus the same sum on the opening one, and every
\* target of the table derived from the profit-and-loss statement holds its
\* signed contributor sum on that statement alone; absent keys count as 0
\* and an amount within the materiality threshold leaves the key absent.
C10_DeltaConvention ==
  op.name = "calc_cash_flow" =>
    /\ \A r \in RulesOf(CASH_FLOW_BALANCE_SHEET) :
         Entry(m, r.k) = EntryOf(Contribution(b1, r) - Contribution(b0, r))
    /\ \A r \in RulesOf(CASH_FLOW_PROFIT_LOSS) :
         Entry(m, r.k) = EntryOf(Contribution(plx, r))

\* C10 witness: receivables went up and accumulated depreciation was
\* booked, so that ChangeLongTermAssets holds a material difference of two
\* non-zero sums; the sale gain is material in AdjustmentsSalesAssets and
\* the interest is within the threshold and absent.
C10_Witness ==
  /\ op.name = "calc_cash_flow"
  /\ ValueIn(b0, "AccountReceivables") = 1
  /\ ValueIn(b1, "AccountReceivables") = MaxVal
  /\ ValueIn(b1, "AccumulatedDepreciation") = -1
  /\ ValueIn(m, "ChangeLongTermAssets") = MaxVal
  /\ ValueIn(plx, "GainsLossesSales") = MaxVal
  /\ ValueIn(m, "AdjustmentsSalesAssets") = MaxVal
  /\ ValueIn(plx, "InterestExpense") = 1
  /\ "CashFlowInterests" \notin DOMAIN m

---------------------------------------------------------------------------
(* C11 *)

\* The cash-flow statement derived from two balance sheets and the
\* profit-and-loss statement and rates of the state.
DerivedCashFlow(bs_begin, bs_end) ==
  calc_elements("CF",
    calc_cash_flow(bs_begin, bs_end, plx, rates[1], rates[2], rates[3]))

\* The closing balance sheet differs from the opening one in
\* CurrentReceivables only, where it is greater.
ReceivablesUp ==
  /\ SameElsewhere(b0, b1, "CurrentReceivables")
  /\ ValueIn(b1, "CurrentReceivables") > ValueIn(b0, "CurrentReceivables")

ReceivablesChange ==
  ValueIn(b1, "CurrentReceivables") - ValueIn(b0, "CurrentReceivables")

\* The cash-flow statement has been derived and rolled up.
CashFlowRolledUp == stmt = "CF" /\ op.name = "calc_elements"

\* Every calculated item of a rolled-up cash-flow statement holds its
\* signed contributor sum.
NoSumDropped(hm) ==
  \A r \in Rules("CF") : ValueIn(hm, r.k) = Contribution(hm, r)

\* C11 as stated: when the balance sheets differ only in CurrentReceivables,
\* greater at the end by D, CashFlowOperations and NetCashFlow after
\* calc_cash_flow and calc_elements are lower by exactly D than for two
\* identical balance sheets.
C11_ReceivablesExact ==
  CashFlowRolledUp /\ ReceivablesUp =>
    /\ ValueIn(m, "CashFlowOperations")
         = ValueIn(DerivedCashFlow(b0, b0), "CashFlowOperations")
             - ReceivablesChange
    /\ ValueIn(m, "NetCashFlow")
         = ValueIn(DerivedCashFlow(b0, b0), "NetCashFlow") - ReceivablesChange

\* C11 amended: the same, provided D exceeds the materiality threshold and
\* neither roll-up dropped a non-zero sum for being within the threshold.
C11_ReceivablesMaterial ==
  CashFlowRolledUp /\ ReceivablesUp
    /\ AboveThreshold(ReceivablesChange)
    /\ NoSumDropped(m) /\ NoSumDropped(DerivedCashFlow(b0, b0)) =>
      /\ ValueIn(m, "ChangeCurrentAssets") = ReceivablesChange
      /\ ValueIn(m, "CashFlowOperations")
           = ValueIn(DerivedCashFlow(b0, b0), "CashFlowOperations")
               - ReceivablesChange
      /\ ValueIn(m, "NetCashFlow")
           = ValueIn(DerivedCashFlow(b0, b0), "NetCashFlow")
               - ReceivablesChange

\* C11 witness: receivables rose by a material amount beside unchanged
\* payables and a material amount of dividends; the operating cash flow
\* went from the dividends added back to the dividends less the rise.
C11_Witness ==
  /\ CashFlowRolledUp
  /\ ReceivablesUp
  /\ ReceivablesChange = MaxVal + 1
  /\ ValueIn(b0, "CurrentPayables") = MaxVal
  /\ ValueIn(plx, "Dividends") = -MaxVal
  /\ NoSumDropped(m)
  /\ NoSumDropped(DerivedCashFlow(b0, b0))
  /\ ValueIn(DerivedCashFlow(b0, b0), "CashFlowOperations") = -MaxVal
  /\ ValueIn(m, "CashFlowOperations") = -MaxVal - ReceivablesChange
  /\ ValueIn(m, "NetCashFlow") = -ReceivablesChange

---------------------------------------------------------------------------
(* C16 *)

\* C16: every entry of the CfMap calc_cash_flow returns has a magnitude
\* above the materiality threshold.
C16_OnlyMaterialEntries ==
  op.name = "calc_cash_flow" => \A k \in DOMAIN m : AboveThreshold(m[k])

---------------------------------------------------------------------------
(* C17 *)

\* The tax payable the claim caps the shield with: corp_tax * (EBT +
\* interest + depreciation tax adjustment) + gp_tax * GrossProfit
\* - revenue_tax * Revenue, or 0 when that is negative.
TaxPayable(cf) ==
  LET adjust == IF "TaxDepreciation" \in DOMAIN plx
                THEN ValueIn(plx, "Depreciation") - plx["TaxDepreciation"]
                ELSE 0
      base == rates[1] * (ValueIn(plx, "EBT") + ValueIn(cf, "CashFlowInterests")
                            + adjust)
                + rates[2] * ValueIn(plx, "GrossProfit")
                - rates[3] * ValueIn(plx, "Revenue")
  IN  IF base > 0 THEN base ELSE 0

\* C17: the CashFlowTaxShield calc_cash_flow produces is never negative and
\* never exceeds the tax payable.
C17_ShieldBounds ==
  op.name = "calc_cash_flow" =>
    /\ "CashFlowTaxShield" \in DOMAIN m
    /\ m["CashFlowTaxShield"] >= 0
    /\ m["CashFlowTaxShield"] <= TaxPayable(m)

---------------------------------------------------------------------------
(* C19 *)

\* The entries of a list that name item k, in list order.
EntriesFor(list, k) == SelectSeq(list, LAMBDA p : p[1] = k)

RECURSIVE AmountsTotal(_)
\* The sum of the amounts of a list of (item, amount) pairs.
AmountsTotal(list) ==
  IF list = <<>> THEN 0 ELSE Head(list)[2] + AmountsTotal(Tail(list))

\* The amount of the last entry of a non-empty list.
LastAmount(list) == list[Len(list)][2]

\* C19: add(k, v) on an entered key sets value(k) to the previous value
\* plus v, upsert(k, v) sets it to v; after upsert_vec the value of a
\* named key is that of its last entry in the list and after add_vec it
\* is the previous value plus the sum of its entries; the keys not named
\* are unchanged.
C19_EnterSemantics ==
  op.name \in MapCalls /\ op.ok =>
    /\ \A k \in (DOMAIN m \cup DOMAIN pre) \ ItemsNamed :
         Entry(m, k) = Entry(pre, k)
    /\ op.name = "add" =>
         Entry(m, op.key) = <<"present", ValueIn(pre, op.key) + op.val>>
    /\ op.name = "upsert" => Entry(m, op.key) = <<"present", op.val>>
    /\ op.name = "upsert_vec" =>
         \A k \in ItemsNamed :
           Entry(m, k) = <<"present", LastAmount(EntriesFor(op.vec, k))>>
    /\ op.name = "add_vec" =>
         \A k \in ItemsNamed :
           Entry(m, k)
             = <<"present",
                 ValueIn(pre, k) + AmountsTotal(EntriesFor(op.vec, k))>>

\* C19 witness: upsert_vec named one item twice with different amounts
\* over a third value; the item holds the amount of the later entry.
C19_Witness ==
  /\ op.name = "upsert_vec"
  /\ op.ok
  /\ Len(op.vec) = 2
  /\ op.vec[1][1] = op.vec[2][1]
  /\ op.vec[1][2] = MaxVal
  /\ op.vec[2][2] = 1
  /\ ValueIn(pre, op.vec[1][1]) = -1
  /\ ValueIn(m, op.vec[1][1]) = 1

---------------------------------------------------------------------------
(* C20: remove_calc_clean resets a statement to its material entered items *)

\* after is before reset: no calculated key, no amount within the
\* threshold, and every entered amount above the threshold as it was.
ResetOf(before, after) ==
  /\ \A k \in DOMAIN after : ~IsRuleTarget(k) /\ AboveThreshold(after[k])
  /\ \A k \in DOMAIN before :
       ~IsRuleTarget(k) /\ AboveThreshold(before[k])
         => Entry(after, k) = Entry(before, k)

\* C20: after remove_calc_clean() a map holds no calculated key and no
\* entry within the materiality threshold, and every entered entry that was
\* above the threshold is still there with its value; the method of the
\* Accounts store does this to every stored balance sheet, profit and loss
\* and cash flow map, and stores or drops no statement.
C20_ResetsEveryStatement ==
  op.name = "remove_calc_clean" =>
    \A f \in StoreFields :
      /\ DOMAIN acc[f] = DOMAIN pre[f]
      /\ \A d \in DOMAIN pre[f] :
           ResetOf(StoredMap(pre, f, d), StoredMap(acc, f, d))

\* A store with a cash flow holding a stale total and two balance sheets,
\* one with an amount within the threshold and one with a stale total,
\* after the reset.
C20_Witness ==
  /\ op.name = "remove_calc_clean"
  /\ LongPeriod \in DOMAIN pre.cash_flow
  /\ pre.cash_flow[LongPeriod]
       = ("DonorContribution" :> MaxVal) @@ ("NetCashFlow" :> 1)
  /\ acc.cash_flow[LongPeriod] = ("DonorContribution" :> MaxVal)
  /\ {0, PeriodSplitDays} \subseteq DOMAIN pre.balance_sheet
  /\ pre.balance_sheet[0]["CurrentReceivables"] = 1
  /\ acc.balance_sheet[0] = ("Cash" :> MaxVal)
  /\ pre.balance_sheet[PeriodSplitDays]["Assets"] = MaxVal
  /\ DOMAIN acc.balance_sheet[PeriodSplitDays] = {"CurrentReceivables"}

---------------------------------------------------------------------------
(* C12: get_account *)

\* An optional value that is there.
IsPresent(o) == o # <<>>

\* The optional statement o of a report is the one h stores at k, or is
\* missing when h stores none.
AsStored(o, h, k) ==
  IF k \in DOMAIN h THEN o = <<h[k]>> ELSE o = <<>>

\* C12: get_account(d0, d1) returns no result exactly when profit_loss has
\* no key (d0, d1); otherwise it returns, without failing, the report of
\* the period, in which the opening and closing balance sheets, the cash
\* flow and the others map are each present exactly when stored (and are
\* then the stored ones); the store is not modified.
C12_GetAccount ==
  op.name = "get_account" =>
    /\ op.ok
    /\ acc = pre
    /\ IsPresent(out.val) <=> op.at \in DOMAIN pre.profit_loss
    /\ IsPresent(out.val) =>
         LET report == out.val[1] IN
           /\ <<report.date_beg, report.date_end>> = op.at
           /\ report.profit_loss = <<pre.profit_loss[op.at]>>
           /\ AsStored(report.balance_sheet_beg, pre.balance_sheet, op.at[1])
           /\ AsStored(report.balance_sheet_end, pre.balance_sheet, op.at[2])
           /\ AsStored(report.cash_flow, pre.cash_flow, op.at)
           /\ AsStored(report.others, pre.others, op.at)

\* A report of a period whose opening balance sheet and cash flow are
\* stored and whose closing balance sheet and others map are not.
C12_Witness ==
  /\ op.name = "get_account"
  /\ IsPresent(out.val)
  /\ IsPresent(out.val[1].balance_sheet_beg)
  /\ ~IsPresent(out.val[1].balance_sheet_end)
  /\ IsPresent(out.val[1].cash_flow)
  /\ ~IsPresent(out.val[1].others)

---------------------------------------------------------------------------
(* C13: split_periods *)

\* The days from the begin to the end of a period.
SpanOf(p) == p[2] - p[1]

\* C13: split_periods partitions the keys of profit_loss: the two sets hold
\* keys of profit_loss only, every key is in exactly one of them, in the
\* annual set exactly when its span is more than 120 days and in the
\* quarterly set exactly when its span is 120 days or less.
C13_Partition ==
  op.name = "split_periods" =>
    LET annual == out.val[1]
        quarterly == out.val[2]
    IN  /\ annual \cup quarterly \subseteq DOMAIN pre.profit_loss
        /\ \A p \in DOMAIN pre.profit_loss :
             /\ (p \in annual) # (p \in quarterly)
             /\ p \in annual <=> SpanOf(p) > 120
             /\ p \in quarterly <=> SpanOf(p) <= 120

---------------------------------------------------------------------------
(* C14: calc_tax *)

\* The greater of the tax on the tax-adjusted EBT plus the tax on EBITDA,
\* and the tax on Revenue, for a statement pl and the rates of oth.
GreaterOfTax(pl, oth) ==
  LET adjust == IF "TaxDepreciation" \in DOMAIN pl
                THEN ValueIn(pl, "Depreciation") - pl["TaxDepreciation"]
                ELSE 0
      onProfit == (ValueIn(pl, "EBT") + adjust) * ValueIn(oth, "CorporateTaxRate")
                    + ValueIn(pl, "EBITDA") * ValueIn(oth, "GrossProfitTaxRate")
      onRevenue == ValueIn(pl, "Revenue") * ValueIn(oth, "RevenueTaxRate")
  IN  IF onProfit >= onRevenue THEN onProfit ELSE onRevenue

\* Every calculated item of the statement of family s is what its rule
\* gives on the map as it stands: there with the rule's sum when the sum is
\* above the threshold, and not there otherwise.
FullyDerived(s, hm) ==
  \A r \in Rules(s) : Entry(hm, r.k) = EntryOf(Contribution(hm, r))

\* C14: after calc_tax() returns, for every period TaxesCurrent holds the
\* greater-of tax and every calculated item of the profit and loss map is
\* consistent with it: EAT = EBT - TaxesCurrent - TaxesDeferred, and
\* NetIncome and the totals above it follow from that EAT.
C14_FullyDerived ==
  op.name = "calc_tax" /\ op.ok =>
    \A p \in DOMAIN acc.profit_loss :
      LET pl == acc.profit_loss[p] IN
        /\ Entry(pl, "TaxesCurrent")
             = <<"present", GreaterOfTax(pl, acc.others[p])>>
        /\ ValueIn(pl, "EAT")
             = ValueIn(pl, "EBT") - ValueIn(pl, "TaxesCurrent")
                 - ValueIn(pl, "TaxesDeferred")
        /\ FullyDerived("PL", pl)

---------------------------------------------------------------------------
(* C15: Accounts.calc_cash_flow *)

\* The periods of a store with a balance sheet at both dates.
WithBothSheets(a) ==
  {p \in DOMAIN a.profit_loss :
     p[1] \in DOMAIN a.balance_sheet /\ p[2] \in DOMAIN a.balance_sheet}

\* The others map of period p of store a is there with the three tax rates.
HasTaxRates(a, p) ==
  /\ p \in DOMAIN a.others
  /\ \A rate \in {"CorporateTaxRate", "GrossProfitTaxRate", "RevenueTaxRate"} :
       rate \in DOMAIN a.others[p]

\* The cash flow of period p of store a, derived and rolled up.
CashFlowOf(a, p) ==
  calc_elements("CF",
    calc_cash_flow(a.balance_sheet[p[1]], a.balance_sheet[p[2]],
                   a.profit_loss[p],
                   a.others[p]["CorporateTaxRate"],
                   a.others[p]["GrossProfitTaxRate"],
                   a.others[p]["RevenueTaxRate"]))

\* C15: after Accounts.calc_cash_flow() returns, for every key (d0, d1) of
\* profit_loss with a balance sheet at both d0 and d1, cash_flow[(d0, d1)]
\* is calc_elements() of calc_cash_flow(balance_sheet[d0],
\* balance_sheet[d1], profit_loss[(d0, d1)], the three tax rates of
\* others[(d0, d1)]), these rates being there whenever the call returns; an
\* Accounts.calc_elements() that follows leaves these cash-flow maps as they
\* are.
C15_StoredCashFlow ==
  /\ op.name = "calc_cash_flow" /\ op.ok =>
       \A p \in WithBothSheets(pre) :
         /\ HasTaxRates(pre, p)
         /\ Entry(acc.cash_flow, p) = <<"present", CashFlowOf(pre, p)>>
  /\ op.name = "calc_elements" /\ op.key = "calc_cash_flow" =>
       \A p \in WithBothSheets(pre) :
         Entry(acc.cash_flow, p) = Entry(pre.cash_flow, p)

\* Three periods with both balance sheets, the cash flow of the first
\* showing the rise of the receivables, after calc_cash_flow() and
\* calc_elements().
C15_Witness ==
  /\ op.name = "calc_elements" /\ op.key = "calc_cash_flow"
  /\ WithBothSheets(acc) = StorePeriods
  /\ ValueIn(acc.cash_flow[<<0, PeriodSplitDays>>], "ChangeCurrentAssets")
       = MaxVal
  /\ AboveThreshold(
       ValueIn(acc.cash_flow[<<0, PeriodSplitDays>>], "NetCashFlow"))
  /\ acc.cash_flow[LongPeriod] # acc.cash_flow[<<0, PeriodSplitDays>>]

---------------------------------------------------------------------------
(* C18: common_size *)

\* The item a common-size statement of family s is scaled by.
AnchorOf(s) ==
  CASE s = "BS" -> "Assets"
    [] s = "PL" -> "Revenue"
    [] s = "CF" -> "NetCashFlow"

\* The amount is negative in sign (a negative amount or -0.0).
SignBit(v) == v.neg

\* q is what dividing by a zero anchor leaves of the amount v: NaN of a
\* zero, else an infinity, negative when the signs of v and of the zero
\* differ.
IsArtifactOf(q, v, anchor) ==
  q.class = (IF v.mag = 0 THEN "NaN"
             ELSE IF SignBit(v) = SignBit(anchor) THEN "inf" ELSE "-inf")

\* q is the ratio of v to a non-zero anchor.
IsRatioOf(q, v, anchor) ==
  /\ q.class = "finite"
  /\ q.den # 0
  /\ q.num * anchor.mag = q.den * v.mag
  /\ q.neg <=> SignBit(v) # SignBit(anchor)

\* C18 as stated: common_size() on a map that lacks its anchor key does not
\* fail; it returns a map with the keys of the map, every value a division
\* artifact.
C18_SilentArtifact ==
  op.name = "common_size" /\ AnchorOf(stmt) \notin DOMAIN pre =>
    /\ op.ok
    /\ out.kind = "map"
    /\ DOMAIN out.val = DOMAIN pre
    /\ \A k \in DOMAIN pre :
         IsArtifactOf(out.val[k], pre[k], [neg |-> FALSE, mag |-> 0])

\* C18 amended: common_size() fails exactly when the map lacks its anchor
\* key, and then returns nothing; otherwise it returns a map with the keys
\* of the map, every value divided by the anchor, so that an anchor of zero
\* leaves a division artifact in every value (NaN of a zero, else an
\* infinity whose sign is that of the value, reversed for the zero -0.0);
\* the map itself is not changed.
C18_FailsWithoutAnchor ==
  op.name = "common_size" =>
    /\ m = pre
    /\ op.ok <=> AnchorOf(stmt) \in DOMAIN pre
    /\ ~op.ok => out.kind = "none"
    /\ op.ok =>
         /\ out.kind = "map"
         /\ DOMAIN out.val = DOMAIN pre
         /\ \A k \in DOMAIN pre :
              IF pre[AnchorOf(stmt)].mag = 0
              THEN IsArtifactOf(out.val[k], pre[k], pre[AnchorOf(stmt)])
              ELSE IsRatioOf(out.val[k], pre[k], pre[AnchorOf(stmt)])

\* A balance sheet with inventories and equity and without Assets, after
\* the call.
C18_Witness ==
  /\ op.name = "common_size"
  /\ stmt = "BS"
  /\ "Assets" \notin DOMAIN pre
  /\ {"Inventories", "CommonStock"} \subseteq DOMAIN pre
  /\ pre["Inventories"] = [neg |-> FALSE, mag |-> MaxVal]
  /\ pre["CommonStock"] = [neg |-> FALSE, mag |-> MaxVal]
  /\ ~op.ok

---------------------------------------------------------------------------
(* C21: set_dates_from_profit_loss *)

\* C21: set_dates_from_profit_loss() fails fatally exactly when some key
\* (begin, end) of profit_loss has begin > end; when it returns, the date
\* set holds the begin and the end of every key of profit_loss; no date
\* that was in the set is removed.
C21_SetDates ==
  op.name = "set_dates_from_profit_loss" =>
    /\ op.ok <=> \A p \in DOMAIN pre.profit_loss : p[1] <= p[2]
    /\ op.ok => \A p \in DOMAIN pre.profit_loss :
                  p[1] \in acc.dates /\ p[2] \in acc.dates
    /\ pre.dates \subseteq acc.dates

\* A store with a date in its set and the three periods, after the call.
C21_Witness ==
  /\ op.name = "set_dates_from_profit_loss"
  /\ op.ok
  /\ pre.dates = {EarlierDate}
  /\ DOMAIN pre.profit_loss = StorePeriods
  /\ acc.dates = StoreDates \cup {EarlierDate}

---------------------------------------------------------------------------
(* C22: point mutators do not cascade *)

\* C22: a put_balance_sheet / put_profit_loss / put_cash_flow(key, item,
\* value) that returns has set that item of the map at that date or period
\* to value and has changed nothing else: every other entry of the map, the
\* calculated items that depend on the item among them, every other map,
\* the date set and the others maps are as before; a call that fails
\* changes nothing.
C22_OneEntry ==
  op.name \in PutCalls =>
    /\ ~op.ok => acc = pre
    /\ op.ok =>
         /\ Entry(acc[PutField][op.at], op.key) = <<"present", op.val>>
         /\ \A f \in StoreFields :
              /\ DOMAIN acc[f] = DOMAIN pre[f]
              /\ \A d \in DOMAIN pre[f] :
                   \A k \in DOMAIN pre[f][d] \cup DOMAIN acc[f][d] :
                     <<f, d, k>> # <<PutField, op.at, op.key>>
                       => Entry(acc[f][d], k) = Entry(pre[f][d], k)
         /\ acc.dates = pre.dates
         /\ acc.others = pre.others

\* Cash is put in a derived balance sheet: Assets, which counts Cash, keeps
\* the total derived before and is no longer what the rules give.
C22_Witness ==
  /\ op.name = "put_balance_sheet" /\ op.ok
  /\ op.key2 = "calc_elements"
  /\ op.key = "Cash"
  /\ ValueIn(pre.balance_sheet[op.at], "Cash") # op.val
  /\ AboveThreshold(ValueIn(pre.balance_sheet[op.at], "Assets"))
  /\ acc.balance_sheet[op.at]["Assets"] = pre.balance_sheet[op.at]["Assets"]
  /\ calc_elements("BS", acc.balance_sheet[op.at])["Assets"]
       # acc.balance_sheet[op.at]["Assets"]

---------------------------------------------------------------------------
(* C25: the dates of the period keys *)

\* Every key of the collection f of store a has its two dates in the date
\* set, the begin not after the end.
KeysDated(a, f) ==
  \A p \in DOMAIN a[f] :
    p[1] \in a.dates /\ p[2] \in a.dates /\ p[1] <= p[2]

\* The calls that may follow set_dates_from_profit_loss.
LaterCalls ==
  {"calc_elements", "remove_calc_clean", "set_tax_rates", "calc_cash_flow",
   "calc_tax", "put_balance_sheet", "put_profit_loss", "put_cash_flow"}

\* C25 as stated: once set_dates_from_profit_loss() has returned, every
\* key of profit_loss and of cash_flow has its dates in the date set and
\* begin <= end, and every later call keeps it so.
C25_DatesOfAllKeys ==
  /\ op.name = "set_dates_from_profit_loss" /\ op.ok =>
       KeysDated(acc, "profit_loss") /\ KeysDated(acc, "cash_flow")
  /\ op.name \in LaterCalls
       /\ KeysDated(pre, "profit_loss") /\ KeysDated(pre, "cash_flow") =>
         KeysDated(acc, "profit_loss") /\ KeysDated(acc, "cash_flow")

\* Every key of cash_flow is a key of profit_loss.
CashFlowsOfPeriods(a) == DOMAIN a.cash_flow \subseteq DOMAIN a.profit_loss

\* C25 amended: once set_dates_from_profit_loss() has returned, every key
\* of profit_loss has its dates in the date set and begin <= end, and so
\* has every key of cash_flow provided cash_flow held keys of profit_loss
\* only when the dates were set; every later call keeps the keys of
\* profit_loss, the date set, and both properties.
C25_DatesOfPeriods ==
  /\ op.name = "set_dates_from_profit_loss" /\ op.ok =>
       /\ KeysDated(acc, "profit_loss")
       /\ CashFlowsOfPeriods(pre) =>
            CashFlowsOfPeriods(acc) /\ KeysDated(acc, "cash_flow")
  /\ op.name \in LaterCalls =>
       /\ DOMAIN acc.profit_loss = DOMAIN pre.profit_loss
       /\ acc.dates = pre.dates
       /\ KeysDated(pre, "profit_loss") => KeysDated(acc, "profit_loss")
       /\ KeysDated(pre, "profit_loss") /\ CashFlowsOfPeriods(pre) =>
            CashFlowsOfPeriods(acc) /\ KeysDated(acc, "cash_flow")

\* calc_cash_flow() after set_dates_from_profit_loss() has stored a cash
\* flow under a new key, whose dates are in the date set.
C25_Witness ==
  /\ op.name = "calc_cash_flow" /\ op.ok
  /\ op.key2 = "set_dates_from_profit_loss"
  /\ DOMAIN acc.cash_flow # DOMAIN pre.cash_flow
  /\ KeysDated(acc, "profit_loss")
  /\ KeysDated(acc, "cash_flow")

---------------------------------------------------------------------------
(* C27: tax rates before the cash flow and the tax *)

\* Every period of the profit and loss has the three tax rates.
AllRated(a) == \A p \in DOMAIN a.profit_loss : HasTaxRates(a, p)

\* C27: Accounts.calc_cash_flow() fails fatally if some period of
\* profit_loss with a balance sheet at both dates has no others map or one
\* that lacks CorporateTaxRate, GrossProfitTaxRate or RevenueTaxRate; after
\* set_tax_rates() every period of profit_loss has the three rates, the
\* later calls keep them, and with them calc_cash_flow() and calc_tax()
\* return.
C27_RatesBeforeDerivation ==
  /\ op.name = "calc_cash_flow"
       /\ (\E p \in WithBothSheets(pre) : ~HasTaxRates(pre, p)) => ~op.ok
  /\ op.name = "set_tax_rates" => op.ok /\ AllRated(acc)
  /\ op.name \in LaterCalls /\ AllRated(pre) => AllRated(acc)
  /\ op.name \in {"calc_cash_flow", "calc_tax"} /\ AllRated(pre) => op.ok

\* calc_cash_flow() returns for three periods with both balance sheets,
\* right after set_tax_rates().
C27_Witness ==
  /\ op.name = "calc_cash_flow" /\ op.ok
  /\ op.key2 = "set_tax_rates"
  /\ WithBothSheets(pre) = StorePeriods
  /\ DOMAIN acc.cash_flow = StorePeriods

---------------------------------------------------------------------------
(* C28: calc_cash_flow replaces the stored cash flows *)

\* The items of a cash flow that calc_cash_flow can give: the targets of
\* the rules over the balance sheets and over the profit and loss, the tax
\* shield, and the totals of the cash-flow rules.
GivenByDerivation ==
  {r.k : r \in RulesOf(CASH_FLOW_BALANCE_SHEET)}
    \cup {r.k : r \in RulesOf(CASH_FLOW_PROFIT_LOSS)}
    \cup {"CashFlowTaxShield"}
    \cup {r.k : r \in Rules("CF")}

\* C28: Accounts.calc_cash_flow(), when it returns, has replaced the whole
\* cash flow of every period of profit_loss with a balance sheet at both
\* dates: the map holds derived items only, so an entered value such as
\* DonorContribution or OtherCashFlowOperations, which no rule derives, is
\* not in it whatever was put before; the cash flows of the other periods
\* are as they were.
C28_EditsLost ==
  op.name = "calc_cash_flow" =>
    /\ op.ok =>
         \A p \in WithBothSheets(pre) :
           /\ p \in DOMAIN acc.cash_flow
           /\ DOMAIN acc.cash_flow[p] \subseteq GivenByDerivation
           /\ "DonorContribution" \notin DOMAIN acc.cash_flow[p]
           /\ "OtherCashFlowOperations" \notin DOMAIN acc.cash_flow[p]
    /\ \A p \in (DOMAIN pre.cash_flow \cup DOMAIN acc.cash_flow)
                  \ WithBothSheets(pre) :
         Entry(acc.cash_flow, p) = Entry(pre.cash_flow, p)

\* OtherCashFlowOperations was put in the cash flow of the long period and
\* calc_cash_flow() followed: the value is gone, with the DonorContribution
\* the store was constructed with.
C28_Witness ==
  /\ op.name = "calc_cash_flow" /\ op.ok
  /\ op.key2 = "put_cash_flow"
  /\ LongPeriod \in WithBothSheets(pre)
  /\ ValueIn(pre.cash_flow[LongPeriod], "OtherCashFlowOperations") = MaxVal
  /\ ValueIn(pre.cash_flow[LongPeriod], "DonorContribution") = MaxVal
  /\ "OtherCashFlowOperations" \notin DOMAIN acc.cash_flow[LongPeriod]
  /\ "DonorContribution" \notin DOMAIN acc.cash_flow[LongPeriod]

---------------------------------------------------------------------------
(* C29: the derivation of a report and of the store *)

\* The store after Accounts.calc_elements() followed by
\* Accounts.calc_cash_flow(), and whether the latter returned.
\* The statements of a map, each with its entries written out.
RECURSIVE EntriesFrom(_, _)
EntriesFrom(h, keys) ==
  IF keys = {} THEN EmptyMap
  ELSE LET k == CHOOSE x \in keys : TRUE
           entries == h[k]
       IN  (k :> [i \in DOMAIN entries |-> entries[i]])
             @@ EntriesFrom(h, keys \ {k})

EntriesOf(h) == EntriesFrom(h, DOMAIN h)

StoreLevel(a) ==
  LET derived == Accounts_calc_elements(a)
      rolled == [a EXCEPT
                   !.balance_sheet = EntriesOf(derived.balance_sheet),
                   !.profit_loss = EntriesOf(derived.profit_loss),
                   !.cash_flow = EntriesOf(derived.cash_flow)]
  IN  Accounts_calc_cash_flow(rolled)

\* The report of period p taken from the store after the store-level
\* derivation.
StoreLevelReport(a, p) == get_account(StoreLevel(a).acc, p[1], p[2])[1]

\* Two reports have the same balance sheets, profit and loss and cash flow.
SameStatements(r1, r2) ==
  /\ r1.balance_sheet_beg = r2.balance_sheet_beg
  /\ r1.balance_sheet_end = r2.balance_sheet_end
  /\ r1.profit_loss = r2.profit_loss
  /\ r1.cash_flow = r2.cash_flow

ReportDerived == op.name = "FinancialReport::calc_elements"

\* C29 as stated: for a period with both balance sheets and the tax rates
\* stored, FinancialReport.calc_elements() on get_account(d0, d1) gives the
\* statements of get_account(d0, d1) taken after Accounts.calc_elements()
\* and Accounts.calc_cash_flow(); for a period that lacks a balance sheet
\* the report gets no cash flow while the store keeps the one it has.
C29_SameDerivation ==
  ReportDerived =>
    /\ op.at \in WithBothSheets(pre) /\ HasTaxRates(pre, op.at) =>
         /\ op.ok
         /\ StoreLevel(pre).ok
         /\ SameStatements(out.val, StoreLevelReport(pre, op.at))
    /\ op.at \notin WithBothSheets(pre) =>
         /\ op.ok
         /\ out.val.cash_flow = <<>>
         /\ StoreLevel(pre).ok
         /\ IsPresent(StoreLevelReport(pre, op.at).cash_flow)
              <=> op.at \in DOMAIN pre.cash_flow

\* C29 amended: as stated, provided the store-level calc_cash_flow()
\* returns; the report-level operation fails fatally when the period has
\* no others map, with or without balance sheets, or has both balance
\* sheets and lacks a tax rate, and otherwise, for a
\* period that lacks a balance sheet, leaves the report without a cash flow
\* while the store keeps the one it has, rolled up by calc_elements().
C29_SameDerivationWhenBothReturn ==
  ReportDerived =>
    /\ op.at \notin DOMAIN pre.others => ~op.ok
    /\ op.at \in WithBothSheets(pre) /\ ~HasTaxRates(pre, op.at) => ~op.ok
    /\ op.at \in WithBothSheets(pre) /\ HasTaxRates(pre, op.at) =>
         /\ op.ok
         /\ StoreLevel(pre).ok =>
              SameStatements(out.val, StoreLevelReport(pre, op.at))
    /\ op.at \notin WithBothSheets(pre) /\ op.at \in DOMAIN pre.others =>
         /\ op.ok
         /\ out.val.cash_flow = <<>>
         /\ StoreLevel(pre).ok =>
              /\ out.val.balance_sheet_beg
                   = StoreLevelReport(pre, op.at).balance_sheet_beg
              /\ out.val.balance_sheet_end
                   = StoreLevelReport(pre, op.at).balance_sheet_end
              /\ out.val.profit_loss = StoreLevelReport(pre, op.at).profit_loss
              /\ AsStored(StoreLevelReport(pre, op.at).cash_flow,
                          Accounts_calc_elements(pre).cash_flow, op.at)

\* The report of the first period of a store with three periods and all
\* balance sheets, whose stale total of the closing balance sheet is
\* derived anew and whose cash flow shows the rise of the receivables.
C29_Witness ==
  /\ ReportDerived /\ op.ok
  /\ op.at = <<0, PeriodSplitDays>>
  /\ WithBothSheets(pre) = StorePeriods
  /\ StoreLevel(pre).ok
  /\ pre.balance_sheet[PeriodSplitDays]["Assets"] = MaxVal
  /\ out.val.balance_sheet_end[1]["Assets"] = MaxVal + 2
  /\ out.val.cash_flow[1]["ChangeCurrentAssets"] = MaxVal
  /\ out.val.cash_flow = <<StoreLevel(pre).acc.cash_flow[op.at]>>

---------------------------------------------------------------------------
(* C23: from_statements *)

FromStatementsCalled == op.name = "from_statements"

\* The statements among the four optional arguments that are supplied,
\* each as the begin dates and the end dates it carries.
DatesSupplied ==
  LET sheet(o, i) == IF o = <<>> THEN {}
                     ELSE {IF i = 1 THEN [beg |-> {o[1].date}, end |-> {}]
                                    ELSE [beg |-> {}, end |-> {o[1].date}]}
      period(o) == IF o = <<>> THEN {}
                   ELSE {[beg |-> {o[1].date_beg}, end |-> {o[1].date_end}]}
  IN  sheet(op.vec[1], 1) \cup sheet(op.vec[2], 2)
        \cup period(op.vec[4]) \cup period(op.vec[5])

\* A supplied statement agrees with the period (d0, d1) of the profit and
\* loss.
AgreesWith(s, d0, d1) == s.beg \subseteq {d0} /\ s.end \subseteq {d1}

\* C23: from_statements fails fatally when the profit and loss is absent;
\* otherwise it returns, with a report exactly when every supplied
\* statement has the dates of the profit and loss (absent statements never
\* count against it) and with no result when some supplied statement
\* differs; the report carries the period of the profit and loss and the
\* items of the statements supplied.
C23_FromStatements ==
  FromStatementsCalled =>
    LET pl == op.vec[3] IN
    /\ pl = <<>> <=> ~op.ok
    /\ pl # <<>> =>
         LET agree == \A s \in DatesSupplied :
                        AgreesWith(s, pl[1].date_beg, pl[1].date_end)
         IN  /\ agree <=> out.val # <<>>
             /\ agree =>
                  /\ out.val[1].date_beg = pl[1].date_beg
                  /\ out.val[1].date_end = pl[1].date_end
                  /\ out.val[1].profit_loss = <<pl[1].items>>
                  /\ IsPresent(out.val[1].balance_sheet_beg)
                       <=> IsPresent(op.vec[1])
                  /\ IsPresent(out.val[1].balance_sheet_end)
                       <=> IsPresent(op.vec[2])
                  /\ IsPresent(out.val[1].cash_flow) <=> IsPresent(op.vec[4])
                  /\ IsPresent(out.val[1].others) <=> IsPresent(op.vec[5])

\* A report is returned for a profit and loss with the closing balance
\* sheet and the others statement of its period, the opening balance sheet
\* and the cash flow being absent.
C23_Witness ==
  /\ FromStatementsCalled /\ op.ok
  /\ op.vec[1] = <<>> /\ op.vec[4] = <<>>
  /\ op.vec[2] # <<>> /\ op.vec[5] # <<>>
  /\ op.vec[3] # <<>>
  /\ out.val # <<>>
  /\ out.val[1].date_end = PeriodSplitDays
  /\ out.val[1].balance_sheet_end = <<ClosingSheet>>
  /\ out.val[1].balance_sheet_beg = <<>>

---------------------------------------------------------------------------
(* C24: the roll-up tables are well formed *)

\* The positions of the rules of table whose target is k.
RulesFor(table, k) == {i \in 1..Len(table) : table[i].k = k}

\* The contributors of the rule at position i.
ContributorsAt(table, i) == ListItems(table[i].pos) \cup ListItems(table[i].neg)

\* The items that contribute to k directly or through other targets, found
\* by following the rules from the items in frontier.
RECURSIVE ContributorsBelow(_, _, _)
ContributorsBelow(table, frontier, seen) ==
  LET direct == UNION {ContributorsAt(table, i) :
                         i \in {j \in 1..Len(table) : table[j].k \in frontier}}
      new == direct \ seen
  IN  IF new = {} THEN seen
      ELSE ContributorsBelow(table, new, seen \cup new)

\* Every calculated item of the family is the target of exactly one rule.
OneRulePerTarget(s) ==
  \A k \in Items(s) :
    is_calc(k) => Cardinality(RulesFor(RollUp(s), k)) = 1

\* No item contributes to itself.
NoCycle(s) ==
  \A i \in 1..Len(RollUp(s)) :
    RollUp(s)[i].k \notin ContributorsBelow(RollUp(s), {RollUp(s)[i].k}, {})

\* Every calculated contributor of a rule is the target of a rule that
\* stands earlier in the list.
TopologicalOrder(s) ==
  \A i \in 1..Len(RollUp(s)) :
    \A c \in ContributorsAt(RollUp(s), i) :
      is_calc(c) => \E j \in 1..(i - 1) : RollUp(s)[j].k = c

\* The three tables are well formed.
WellFormedTables ==
  \A s \in Families :
    OneRulePerTarget(s) /\ NoCycle(s) /\ TopologicalOrder(s)

\* C24: in the roll-up table of each statement family every calculated
\* item is the target of exactly one rule, the contributor relation has no
\* cycle, and every calculated contributor is the target of a rule earlier
\* in the list than any rule that uses it.
C24_WellFormedTables == stmt \in Families => WellFormedTables

\* calc_elements has derived totals of totals in one pass: Inventories from
\* the raw materials entered, CurrentAssets from Inventories and Assets
\* from CurrentAssets, each by a rule that stands after the one it uses.
C24_Witness ==
  /\ stmt = "BS" /\ AfterCalc
  /\ DOMAIN pre = {"RawMaterials"}
  /\ pre["RawMaterials"] = MaxVal
  /\ ValueIn(m, "Inventories") = MaxVal
  /\ ValueIn(m, "CurrentAssets") = MaxVal
  /\ ValueIn(m, "Assets") = MaxVal
  /\ \E i, j, l \in 1..Len(RollUp(stmt)) :
       /\ i < j /\ j < l
       /\ RollUp(stmt)[i].k = "Inventories"
       /\ RollUp(stmt)[j].k = "CurrentAssets"
       /\ RollUp(stmt)[l].k = "Assets"
       /\ "Inventories" \in ContributorsAt(RollUp(stmt), j)
       /\ "CurrentAssets" \in ContributorsAt(RollUp(stmt), l)

---------------------------------------------------------------------------
(* C26: the cash flow reconciles with the change in cash *)

\* The change in Cash less the change in the BalanceSheetCheck that
\* calc_elements() derives on each balance sheet.
CashChangeLessCheck(bs_begin, bs_end) ==
  (ValueIn(bs_end, "Cash") - ValueIn(bs_begin, "Cash"))
    - (CheckValueDerived(bs_end) - CheckValueDerived(bs_begin))

NetCashFlowOf(bs_begin, bs_end, pl) ==
  ValueIn(calc_elements("CF", calc_cash_flow(bs_begin, bs_end, pl, 0, 0, 0)),
          "NetCashFlow")

\* Alone on the closing balance sheet with a material amount, every entered
\* item but Cash moves NetCashFlow by that amount against its place in
\* BalanceSheetCheck, and Cash does not move it.
EveryItemCountedOnce ==
  \A k \in BsType : ~IsBsTarget(k) =>
    LET bs_end == (k :> MaxVal) IN
    /\ NetCashFlowOf(EmptyMap, bs_end, EmptyMap)
         = CashChangeLessCheck(EmptyMap, bs_end)
    /\ k # "Cash" =>
         /\ NetCashFlowOf(EmptyMap, bs_end, EmptyMap) \in {MaxVal, -MaxVal}
         /\ NetCashFlowOf(bs_end, EmptyMap, EmptyMap)
              = -NetCashFlowOf(EmptyMap, bs_end, EmptyMap)

\* The items of the profit and loss that the cash flow reads.
ProfitLossSources ==
  UNION {ListItems(r.pos) \cup ListItems(r.neg) :
           r \in RulesOf(CASH_FLOW_PROFIT_LOSS)}

\* A material amount of any item of the profit and loss that the cash flow
\* reads leaves NetCashFlow at zero.
ProfitLossCancels ==
  \A k \in ProfitLossSources :
    NetCashFlowOf(EmptyMap, EmptyMap, k :> MaxVal) = 0

\* Every item calc_cash_flow derives holds its contributor sum: none was
\* left out for being within the materiality threshold.
NoElementDropped(cf) ==
  /\ \A r \in RulesOf(CASH_FLOW_BALANCE_SHEET) :
       ValueIn(cf, r.k) = Contribution(b1, r) - Contribution(b0, r)
  /\ \A r \in RulesOf(CASH_FLOW_PROFIT_LOSS) :
       ValueIn(cf, r.k) = Contribution(plx, r)

\* C26 as stated: after calc_cash_flow and calc_elements(), NetCashFlow is
\* the change in Cash less the change in BalanceSheetCheck, every entered
\* balance-sheet item but Cash being counted once with its sign and the
\* items taken from the profit and loss cancelling out.
C26_Reconciles ==
  CashFlowRolledUp =>
    /\ ValueIn(m, "NetCashFlow") = CashChangeLessCheck(b0, b1)
    /\ EveryItemCountedOnce
    /\ ProfitLossCancels

\* C26 amended: the same, provided that no non-zero roll-up sum of either
\* derived balance sheet or of the cash flow, and no non-zero item derived
\* by calc_cash_flow, lies within the materiality threshold.
C26_ReconcilesMaterial ==
  CashFlowRolledUp =>
    /\ NothingPruned(calc_elements("BS", b0))
         /\ NothingPruned(calc_elements("BS", b1))
         /\ NoElementDropped(m) /\ NoSumDropped(m) =>
           ValueIn(m, "NetCashFlow") = CashChangeLessCheck(b0, b1)
    /\ EveryItemCountedOnce
    /\ ProfitLossCancels

\* Two balanced balance sheets: MaxVal of cash funded by common stock
\* becomes MaxVal of receivables, with interest, dividends and a gain on
\* sales in the profit and loss; the net cash flow is the fall in cash.
C26_Witness ==
  /\ CashFlowRolledUp
  /\ b0 = ("Cash" :> MaxVal) @@ ("CommonStock" :> MaxVal)
  /\ b1 = ("CurrentReceivables" :> MaxVal) @@ ("CommonStock" :> MaxVal)
  /\ DOMAIN plx = {"InterestExpense", "Dividends", "GainsLossesSales"}
  /\ CheckValueDerived(b0) = 0 /\ CheckValueDerived(b1) = 0
  /\ ValueIn(m, "CashFlowInterests") = MaxVal
  /\ ValueIn(m, "AdjustmentsRetainedEarnings") = MaxVal
  /\ ValueIn(m, "NetCashFlow") = -MaxVal

---------------------------------------------------------------------------
(* C30: the resolver meets no conflict on the balance-sheet table *)

RECURSIVE PathCount(_, _)
RECURSIVE PathCountIn(_, _, _)
\* The number of paths of the roll-up tree that lead from item `from` down
\* to item k, a contributor listed twice counting twice.
PathCount(from, k) ==
  IF from = k THEN 1
  ELSE IF ~IsBsTarget(from) THEN 0
  ELSE PathCountIn(BsRuleOf(from).pos, 1, k)
         + PathCountIn(BsRuleOf(from).neg, 1, k)

PathCountIn(list, i, k) ==
  IF i > Len(list) THEN 0
  ELSE PathCount(list[i], k) + PathCountIn(list, i + 1, k)

\* The paths to k from the three roots together.
PathsFromRoots(k) ==
  PathCount("Assets", k) + PathCount("Liabilities", k) + PathCount("Equity", k)

\* The polarities the paths to k call for: the Entry polarity of the root
\* for an even number of negative-contributor edges, else its Contra one.
PolaritiesByPath(k) ==
  UNION {{IF p[2] % 2 = 0 THEN root[2] ELSE root[3] :
            p \in {q \in ReachedFrom(root[1], 0) : q[1] = k}} :
         root \in PolarityRoots}

\* The inserts of the resolver when it walks the roots in the order given.
InsertsInOrder(roots) ==
  debit_mapping(roots[1][1], roots[1][2], roots[1][3])
    \o debit_mapping(roots[2][1], roots[2][2], roots[2][3])
    \o debit_mapping(roots[3][1], roots[3][2], roots[3][3])

\* Every order of the three roots.
RootOrders ==
  {o \in [1..3 -> PolarityRoots] : \A i, j \in 1..3 : i # j => o[i] # o[j]}

\* The order of DEBIT_TYPE: Assets, Liabilities, Equity.
DeclaredOrder ==
  CHOOSE o \in RootOrders :
    o[1][1] = "Assets" /\ o[2][1] = "Liabilities" /\ o[3][1] = "Equity"

LastFirst(list) == [i \in 1..Len(list) |-> list[Len(list) + 1 - i]]

\* The inserts of the resolver as DEBIT_TYPE makes them.
ResolverInserts == InsertsInOrder(DeclaredOrder)

\* Every entered item is reached by one path, inserted once, and holds the
\* polarity of its path.
OnePathEach ==
  \A k \in BsType : ~IsBsTarget(k) =>
    /\ PathsFromRoots(k) = 1
    /\ Cardinality({i \in 1..Len(ResolverInserts) :
                      ResolverInserts[i][1] = k}) = 1
    /\ k \in DOMAIN DEBIT_TYPE
    /\ PolaritiesByPath(k) = {DEBIT_TYPE[k]}

\* The map is the same in whatever order the roots are walked, and with
\* the inserts made from last to first.
AnyOrder ==
  \A o \in RootOrders :
    /\ Inserted(InsertsInOrder(o)) = DEBIT_TYPE
    /\ Inserted(LastFirst(InsertsInOrder(o))) = DEBIT_TYPE

\* C30: on the balance-sheet table every entered item is reached by exactly
\* one path from Assets, Liabilities and Equity together, the resolver
\* inserts it once, with the polarity of that path, and the map is the same
\* in whatever order the roots are walked or the inserts are made.
C30_ConflictFree == stmt = "BS" => OnePathEach /\ AnyOrder

\* A debit of accumulated depreciation, which its one path, through the
\* negative contributor of NetPlantPropertyEquipment, makes a contra asset:
\* the value falls by the amount.
C30_Witness ==
  /\ stmt = "BS"
  /\ op.name = "debit" /\ op.ok
  /\ op.key = "AccumulatedDepreciation"
  /\ op.val = MaxVal
  /\ PathsFromRoots(op.key) = 1
  /\ PolaritiesByPath(op.key) = {"AssetContra"}
  /\ ValueIn(m, op.key) = ValueIn(pre, op.key) - MaxVal

=============================================================================
